---- MODULE Spec2Model ----
(***************************************************************************)
(* Model of the UI-tree ingestion and element-resolution core:             *)
(*   RenderServiceParser  (src/src/parsers/renderService.ts)               *)
(*   ElementLocator       (src/src/parsers/elementLocator.ts)              *)
(*   UIController         (src/unnamed/part_002, automation/controller)    *)
(*                                                                         *)
(* A dump is a sequence of lines; a line is a sequence of tokens.  The     *)
(* tokens are the character classes the parser's regular expressions tell  *)
(* apart: the marker "|", a blank, word[digits], word[text],               *)
(* modifiers[...] and any other text.  Strings whose characters matter     *)
(* (node names, search texts) are sequences of one-character strings.      *)
(* Optional values are sequences of length 0 (undefined/null) or 1.        *)
(***************************************************************************)
EXTENDS Integers, Sequences, FiniteSets, TLC

VARIABLES
    lines,   \* parse: output.split('\n'), the dump being ingested
    i,       \* parse: index of the next line of the loop (1-based)
    nodes,   \* every UINode object created so far (arena; children hold indices)
    forest,  \* parse: the Map<number, UINode> in insertion order, <<[pid, root]>>
    stack,   \* parse: the ancestor stack (arena indices)
    pc,      \* position of the running call
    result,  \* value returned by the last completed query / controller call
    cmds     \* device commands issued through HDC.shell, in order

vars == <<lines, i, nodes, forest, stack, pc, result, cmds>>

----------------------------------------------------------------------------
(* Bounds of the model *)

MaxLines == 4
MaxBars == 3

----------------------------------------------------------------------------
(* Tokens of a dump line *)

Bar == [t |-> "bar", word |-> "", n |-> 0, chars |-> <<>>]
Sp == [t |-> "sp", word |-> "", n |-> 0, chars |-> <<>>]
Junk == [t |-> "junk", word |-> "", n |-> 0, chars |-> <<>>]
\* word[digits], e.g. pid[10], Canvas[1], parent[9], instanceId[7]
Tag(w, k) == [t |-> "tag", word |-> w, n |-> k, chars |-> <<>>]
\* word[text] whose text is not all digits, e.g. name[OK]
Txt(w, cs) == [t |-> "txt", word |-> w, n |-> 0, chars |-> cs]
\* modifiers[p1, p2, ...]; chars holds the comma-separated parts, trimmed
Mods(parts) == [t |-> "mods", word |-> "modifiers", n |-> 0, chars |-> parts]

\* An id string: `${word}-${n}` (word # ""), or the bare digits n (word = "")
IdStr(w, k) == [w |-> w, n |-> k]

----------------------------------------------------------------------------
(* RenderServiceParser: line classification *)

\* !line.trim()
isBlank(line) == \A k \in 1..Len(line) : line[k].t = "sp"

RECURSIVE countDepthFrom(_, _)
countDepthFrom(line, k) ==
    IF k > Len(line) THEN 0
    ELSE IF line[k].t = "bar" THEN 1 + countDepthFrom(line, k + 1)
    ELSE IF line[k].t = "sp" THEN countDepthFrom(line, k + 1)
    ELSE 0

countDepth(line) == countDepthFrom(line, 1)

\* Index of the first token after position k that is not a blank (0 if none):
\* where a pattern continues after "\|\s*"
RECURSIVE skipSpaces(_, _)
skipSpaces(line, k) ==
    IF k + 1 > Len(line) THEN 0
    ELSE IF line[k + 1].t = "sp" THEN skipSpaces(line, k + 1)
    ELSE k + 1

Min(S) == CHOOSE x \in S : \A y \in S : x <= y

isPidTok(tok) == tok.t = "tag" /\ tok.word = "pid"
isTypeTok(tok) == tok.t = "tag"

\* Leftmost match of /\|\s*<tok>/, <tok> being pid[...] when pidOnly and any
\* word[...] otherwise: the index of the matched token, 0 when the pattern
\* does not match
barThen(line, pidOnly) ==
    LET hits == {skipSpaces(line, k) : k \in {b \in 1..Len(line) :
                       /\ line[b].t = "bar"
                       /\ skipSpaces(line, b) # 0
                       /\ IF pidOnly THEN isPidTok(line[skipSpaces(line, b)])
                                     ELSE isTypeTok(line[skipSpaces(line, b)])}}
    IN IF hits = {} THEN 0 ELSE Min(hits)

\* line.match(/\|\s*pid\[(\d+)\]/)
pidMatch(line) == barThen(line, TRUE)

\* line.match(/\|\s*(\w+)\[(\d+)\]/)
nodeTypeMatch(line) == barThen(line, FALSE)

\* First token word[...] of the line of the given kind and word (0 if none):
\* the unanchored patterns /parent\[(\d+)\]/, /name\[([^\]]+)\]/, ...
firstTok(line, kind, w) ==
    LET hits == {k \in 1..Len(line) : line[k].t = kind /\ line[k].word = w}
    IN IF hits = {} THEN 0 ELSE Min(hits)

----------------------------------------------------------------------------
(* RenderServiceParser: nodes *)

BoundsUndefined == [k |-> "undefined", v |-> <<>>]
BoundsTrue == [k |-> "boolean", v |-> <<>>]
\* a bounds string; v is <<x, y, width, height>> when it has the bracketed
\* form and <<>> otherwise
BoundsString(v) == [k |-> "string", v |-> v]

\* A slip that would keep the rectangle of a Bounds token as a bounds string
parseModifiersKeepsBounds(parts) ==
    [backgroundColor |-> <<>>,
     bounds |-> IF \E k \in 1..Len(parts) : parts[k] = "Bounds"
                THEN BoundsString(<<3, 5, 20, 10>>) ELSE BoundsUndefined,
     boundsData |-> <<>>,
     frame |-> \E k \in 1..Len(parts) : parts[k] = "Frame"]

\* modifiers.bounds is the flag true when a part is "Bounds"; nothing sets
\* boundsData
parseModifiers(parts) ==
    [backgroundColor |-> <<>>,
     bounds |-> IF \E k \in 1..Len(parts) : parts[k] = "Bounds"
                THEN BoundsTrue ELSE BoundsUndefined,
     boundsData |-> <<>>,
     frame |-> \E k \in 1..Len(parts) : parts[k] = "Frame"]

NoProperties == [instanceId |-> <<>>, modifiers |-> <<>>, position |-> <<>>]

rootNode(currentPid) ==
    [id |-> IdStr("pid", currentPid),
     type |-> "ProcessRoot",
     name |-> <<>>,
     pid |-> <<currentPid>>,
     frameNodeId |-> <<>>,
     frameNodeTag |-> <<>>,
     parentId |-> <<>>,
     children |-> <<>>,
     properties |-> NoProperties,
     src |-> 0]

\* <<node>>, or <<>> for null
parseNodeLine(line) ==
    LET m == nodeTypeMatch(line)
        parentMatch == firstTok(line, "tag", "parent")
        frameNodeIdMatch == firstTok(line, "tag", "frameNodeId")
        frameNodeTagMatch == firstTok(line, "txt", "frameNodeTag")
        nameMatch == firstTok(line, "txt", "name")
        instanceIdMatch == firstTok(line, "tag", "instanceId")
        modifiersMatch == firstTok(line, "mods", "modifiers")
    IN IF m = 0 THEN <<>>
       ELSE <<[id |-> IdStr(line[m].word, line[m].n),
               type |-> line[m].word,
               name |-> IF nameMatch # 0 THEN line[nameMatch].chars ELSE <<>>,
               pid |-> <<>>,
               frameNodeId |-> IF frameNodeIdMatch # 0
                               THEN <<line[frameNodeIdMatch].n>> ELSE <<>>,
               frameNodeTag |-> IF frameNodeTagMatch # 0
                                THEN <<line[frameNodeTagMatch].chars>> ELSE <<>>,
               parentId |-> IF parentMatch # 0
                            THEN <<IdStr("", line[parentMatch].n)>> ELSE <<>>,
               children |-> <<>>,
               properties |->
                   [instanceId |-> IF instanceIdMatch # 0
                                   THEN <<line[instanceIdMatch].n>> ELSE <<>>,
                    modifiers |-> IF modifiersMatch # 0
                                  THEN <<parseModifiers(line[modifiersMatch].chars)>>
                                  ELSE <<>>,
                    position |-> <<>>],
               src |-> 0]>>

----------------------------------------------------------------------------
(* RenderServiceParser.parse: one iteration of the line loop *)

\* A slip that would add an entry at every root marker
mapSetAppend(m, key, idx) == Append(m, [pid |-> key, root |-> idx])

\* nodes.set(currentPid, rootNode): a Map keeps the position of an existing key
mapSet(m, key, idx) ==
    IF \E k \in 1..Len(m) : m[k].pid = key
    THEN [k \in 1..Len(m) |-> IF m[k].pid = key THEN [pid |-> key, root |-> idx]
                                                ELSE m[k]]
    ELSE Append(m, [pid |-> key, root |-> idx])

\* A slip that would pop once more: while (stack.length >= depth)
adjustStackGeq(st, depth) ==
    IF Len(st) >= depth THEN SubSeq(st, 1, depth - 1) ELSE st

\* while (stack.length > depth) stack.pop()
adjustStack(st, depth) == IF Len(st) > depth THEN SubSeq(st, 1, depth) ELSE st

\* parent.children.push(node)
pushChild(ns, parent, idx) == [ns EXCEPT ![parent].children = Append(@, idx)]

\* A slip that would keep the parent[...] token of the line when there is one
setParentKeepToken(node, parent) ==
    IF node.parentId # <<>> THEN node ELSE [node EXCEPT !.parentId = <<parent.id>>]

\* node.parentId = parent.id
setParent(node, parent) == [node EXCEPT !.parentId = <<parent.id>>]

\* P = [nodes, forest, stack]; ln is the line's index in the dump, kept in the
\* created node's src field (bookkeeping of the model: which line made which node)
parseLine(P, line, ln) ==
    IF isBlank(line) THEN P
    ELSE IF pidMatch(line) # 0
    THEN LET currentPid == line[pidMatch(line)].n
             idx == Len(P.nodes) + 1
         IN [nodes |-> Append(P.nodes, [rootNode(currentPid) EXCEPT !.src = ln]),
             forest |-> mapSet(P.forest, currentPid, idx),
             stack |-> <<idx>>]
    ELSE IF countDepth(line) > 0 /\ parseNodeLine(line) # <<>>
    THEN LET node == parseNodeLine(line)[1]
             st == adjustStack(P.stack, countDepth(line))
             idx == Len(P.nodes) + 1
         IN IF Len(st) > 0
            THEN LET parent == st[Len(st)]
                 IN [nodes |-> Append(pushChild(P.nodes, parent, idx),
                                      [setParent(node, P.nodes[parent])
                                          EXCEPT !.src = ln]),
                     forest |-> P.forest,
                     stack |-> Append(st, idx)]
            ELSE [nodes |-> Append(P.nodes, [node EXCEPT !.src = ln]),
                  forest |-> P.forest,
                  stack |-> Append(st, idx)]
    ELSE P

RECURSIVE parseFrom(_, _, _)
parseFrom(P, ls, k) ==
    IF k > Len(ls) THEN P ELSE parseFrom(parseLine(P, ls[k], k), ls, k + 1)

\* RenderServiceParser.parse(output) as a function of the whole dump
parse(ls) == parseFrom([nodes |-> <<>>, forest |-> <<>>, stack |-> <<>>], ls, 1)

----------------------------------------------------------------------------
(* ElementLocator: strings *)

UpperCase == <<"A", "B", "C", "D", "E", "F", "G", "H", "I", "J", "K", "L", "M",
               "N", "O", "P", "Q", "R", "S", "T", "U", "V", "W", "X", "Y", "Z">>
LowerCase == <<"a", "b", "c", "d", "e", "f", "g", "h", "i", "j", "k", "l", "m",
               "n", "o", "p", "q", "r", "s", "t", "u", "v", "w", "x", "y", "z">>

toLowerCase(s) ==
    [k \in 1..Len(s) |->
        IF \E u \in 1..Len(UpperCase) : UpperCase[u] = s[k]
        THEN LowerCase[CHOOSE u \in 1..Len(UpperCase) : UpperCase[u] = s[k]]
        ELSE s[k]]

\* hay.includes(needle)
includes(hay, needle) ==
    \E k \in 0..(Len(hay) - Len(needle)) : SubSeq(hay, k + 1, k + Len(needle)) = needle

startsWith(s, prefix) ==
    Len(prefix) <= Len(s) /\ SubSeq(s, 1, Len(prefix)) = prefix

endsWith(s, suffix) ==
    Len(suffix) <= Len(s) /\ SubSeq(s, Len(s) - Len(suffix) + 1, Len(s)) = suffix

Min3(a, b, c) == IF a <= b /\ a <= c THEN a ELSE IF b <= c THEN b ELSE c

\* One row dp[i][0..n] from the row before it; row holds dp[i][0..j-1] so far
RECURSIVE levenshteinRow(_, _, _, _)
levenshteinRow(prev, ch, str2, row) ==
    IF Len(row) = Len(str2) + 1 THEN row
    ELSE LET j == Len(row)
             v == IF ch = str2[j] THEN prev[j]
                  ELSE Min3(prev[j + 1] + 1, row[j] + 1, prev[j] + 1)
         IN levenshteinRow(prev, ch, str2, Append(row, v))

RECURSIVE levenshteinRows(_, _, _, _)
levenshteinRows(str1, str2, r, prev) ==
    IF r > Len(str1) THEN prev[Len(str2) + 1]
    ELSE levenshteinRows(str1, str2, r + 1, levenshteinRow(prev, str1[r], str2, <<r>>))

levenshteinDistance(str1, str2) ==
    levenshteinRows(str1, str2, 1, [j \in 1..(Len(str2) + 1) |-> j - 1])

----------------------------------------------------------------------------
(* ElementLocator: scoring and traversal.  ns is the arena the tree lives in. *)

\* A slip that would leave the name out of the label
getNodeLabelTypeOnly(node) == <<node.type>>

\* type(name) when the node has a name, type otherwise
getNodeLabel(node) ==
    IF node.name # <<>> THEN <<node.type, "(">> \o node.name \o <<")">>
    ELSE <<node.type>>

\* A slip that would drop the containment tier and fall through to the others
calculateScoreNoContainment(node, text) ==
    LET nodeName == toLowerCase(node.name)
        searchText == toLowerCase(text)
    IN IF node.name = <<>> THEN 0
       ELSE IF nodeName = searchText THEN 100
       ELSE IF startsWith(nodeName, searchText) THEN 75
       ELSE IF endsWith(nodeName, searchText) THEN 70
       ELSE 0

\* Math.round(similarity * 60) under similarity >= 0.6, in exact arithmetic:
\* similarity = (maxLength - distance) / maxLength
calculateScore(node, text) ==
    LET nodeName == toLowerCase(node.name)
        searchText == toLowerCase(text)
        distance == levenshteinDistance(nodeName, searchText)
        maxLength == IF Len(nodeName) >= Len(searchText)
                     THEN Len(nodeName) ELSE Len(searchText)
    IN IF node.name = <<>> THEN 0
       ELSE IF nodeName = searchText THEN 100
       ELSE IF includes(nodeName, searchText) \/ includes(searchText, nodeName) THEN 85
       ELSE IF startsWith(nodeName, searchText) THEN 75
       ELSE IF endsWith(nodeName, searchText) THEN 70
       ELSE IF 10 * (maxLength - distance) >= 6 * maxLength
            THEN (120 * (maxLength - distance) + maxLength) \div (2 * maxLength)
            ELSE 0

\* The recursion every search shares: currentPath = [...path, label(node)],
\* visit the node, then each child in order.  The visits in order, <<[node, path]>>
RECURSIVE walk(_, _, _)
RECURSIVE walkChildren(_, _, _, _)
walk(ns, n, path) ==
    LET currentPath == Append(path, getNodeLabel(ns[n]))
    IN <<[node |-> n, path |-> currentPath]>>
           \o walkChildren(ns, ns[n].children, 1, currentPath)

walkChildren(ns, children, k, currentPath) ==
    IF k > Len(children) THEN <<>>
    ELSE walk(ns, children[k], currentPath)
             \o walkChildren(ns, children, k + 1, currentPath)

\* A slip that would admit every node the tiers of calculateScore give a score
textMatchesByScore(node, text, exactMatch) ==
    /\ node.name # <<>>
    /\ IF exactMatch THEN toLowerCase(node.name) = toLowerCase(text)
       ELSE calculateScore(node, text) > 0

\* The name test of searchTextWithScore
textMatches(node, text, exactMatch) ==
    /\ node.name # <<>>
    /\ IF exactMatch THEN toLowerCase(node.name) = toLowerCase(text)
       ELSE includes(toLowerCase(node.name), toLowerCase(text))

searchTextWithScore(ns, root, text, exactMatch) ==
    LET hit(w) == textMatches(ns[w.node], text, exactMatch)
        ws == SelectSeq(walk(ns, root, <<>>), hit)
    IN [k \in 1..Len(ws) |->
           [node |-> ws[k].node, path |-> ws[k].path,
            score |-> calculateScore(ns[ws[k].node], text)]]

findByText(ns, root, text, exactMatch) == searchTextWithScore(ns, root, text, exactMatch)

\* A slip that would give a type match the score of a property match
searchTypeScore100(ns, root, type) ==
    LET hit(w) == ns[w.node].type = type
        ws == SelectSeq(walk(ns, root, <<>>), hit)
    IN [k \in 1..Len(ws) |-> [node |-> ws[k].node, path |-> ws[k].path, score |-> 100]]

searchType(ns, root, type) ==
    LET hit(w) == ns[w.node].type = type
        ws == SelectSeq(walk(ns, root, <<>>), hit)
    IN [k \in 1..Len(ws) |-> [node |-> ws[k].node, path |-> ws[k].path, score |-> 80]]

findByType(ns, root, type) == searchType(ns, root, type)

\* node.properties[key] === value, for a value that is a string of digits (the
\* only values the parser stores that can be strictly equal to a caller's)
propertyEquals(node, key, value) ==
    key = "instanceId" /\ node.properties.instanceId = <<value>>

searchProperty(ns, root, propertyName, propertyValue) ==
    LET hit(w) == propertyEquals(ns[w.node], propertyName, propertyValue)
        ws == SelectSeq(walk(ns, root, <<>>), hit)
    IN [k \in 1..Len(ws) |-> [node |-> ws[k].node, path |-> ws[k].path, score |-> 100]]

findByProperty(ns, root, propertyName, propertyValue) ==
    searchProperty(ns, root, propertyName, propertyValue)

\* conditions = [text (<<>>: none), type ("": none), properties <<[key, value]>>]
totalConditions(conditions) ==
    (IF conditions.text # <<>> THEN 1 ELSE 0)
    + (IF conditions.type # "" THEN 1 ELSE 0)
    + Len(conditions.properties)

textConditionHolds(node, conditions) ==
    /\ conditions.text # <<>>
    /\ node.name # <<>>
    /\ includes(toLowerCase(node.name), toLowerCase(conditions.text))

typeConditionHolds(node, conditions) ==
    conditions.type # "" /\ node.type = conditions.type

matchedProperties(node, conditions) ==
    {k \in 1..Len(conditions.properties) :
        propertyEquals(node, conditions.properties[k].key, conditions.properties[k].value)}

matchCount(node, conditions) ==
    (IF textConditionHolds(node, conditions) THEN 1 ELSE 0)
    + (IF typeConditionHolds(node, conditions) THEN 1 ELSE 0)
    + Cardinality(matchedProperties(node, conditions))

rawScore(node, conditions) ==
    (IF textConditionHolds(node, conditions) THEN 30 ELSE 0)
    + (IF typeConditionHolds(node, conditions) THEN 20 ELSE 0)
    + 25 * Cardinality(matchedProperties(node, conditions))

\* Math.min(100, Math.round((score / total) * (matchCount / total) * 100)),
\* in exact arithmetic (round half up)
conditionScore(node, conditions) ==
    LET t == totalConditions(conditions)
        r == (200 * rawScore(node, conditions) * matchCount(node, conditions) + t * t)
                 \div (2 * t * t)
    IN IF r > 100 THEN 100 ELSE r

searchWithConditions(ns, root, conditions) ==
    LET hit(w) == matchCount(ns[w.node], conditions) > 0
        ws == SelectSeq(walk(ns, root, <<>>), hit)
    IN [k \in 1..Len(ws) |->
           [node |-> ws[k].node, path |-> ws[k].path,
            score |-> conditionScore(ns[ws[k].node], conditions)]]

\* ms with m put after every element whose score is not lower
insertByScore(ms, m) ==
    LET ahead == Cardinality({k \in 1..Len(ms) : ms[k].score >= m.score})
    IN SubSeq(ms, 1, ahead) \o <<m>> \o SubSeq(ms, ahead + 1, Len(ms))

RECURSIVE sortFrom(_, _, _)
sortFrom(ms, k, acc) ==
    IF k > Len(ms) THEN acc ELSE sortFrom(ms, k + 1, insertByScore(acc, ms[k]))

\* A slip that would leave the list as collected
sortByScoreMissing(ms) == ms

\* results.sort((a, b) => b.score - a.score): stable (ES2019), descending
sortByScore(ms) == sortFrom(ms, 1, <<>>)

findByConditions(ns, root, conditions) ==
    sortByScore(searchWithConditions(ns, root, conditions))

----------------------------------------------------------------------------
(* The dumps the model ingests *)

RECURSIVE Prefix(_)
Prefix(b) == IF b = 0 THEN <<>> ELSE <<Bar, Sp>> \o Prefix(b - 1)

OK == <<"O", "K">>

ParseLines ==
    {Prefix(1) \o <<Tag("pid", 10)>>, Prefix(1) \o <<Tag("pid", 20)>>,
     Prefix(2) \o <<Tag("pid", 10)>>}
    \cup {Prefix(b) \o <<Tag("Canvas", 1)>> : b \in 0..MaxBars}
    \cup {Prefix(2) \o <<Tag("Text", 2), Tag("parent", 9), Txt("name", OK)>>}
    \cup {Prefix(2) \o <<Junk>>}
    \cup {<<Sp>>}

Dumps == UNION {[1..k -> ParseLines] : k \in 0..MaxLines}

NoResult == [op |-> "none"]

----------------------------------------------------------------------------
(* Ingestion, line by line *)

Init ==
    /\ lines \in Dumps
    /\ i = 1
    /\ nodes = <<>>
    /\ forest = <<>>
    /\ stack = <<>>
    /\ pc = "parse"
    /\ result = NoResult
    /\ cmds = <<>>

\* for (let i = 0; i < lines.length; i++) { ... }
ParseLine ==
    /\ pc = "parse"
    /\ i <= Len(lines)
    /\ LET P == parseLine([nodes |-> nodes, forest |-> forest, stack |-> stack],
                          lines[i], i)
       IN /\ nodes' = P.nodes
          /\ forest' = P.forest
          /\ stack' = P.stack
    /\ i' = i + 1
    /\ UNCHANGED <<lines, pc, result, cmds>>

\* return nodes
ParseReturn ==
    /\ pc = "parse"
    /\ i > Len(lines)
    /\ pc' = "parsed"
    /\ UNCHANGED <<lines, i, nodes, forest, stack, result, cmds>>

Next == ParseLine \/ ParseReturn

Spec == Init /\ [][Next]_vars

----------------------------------------------------------------------------
(* Queries on a parsed forest: one query per ingestion (each query re-parses  *)
(* a fresh dump), the forest is left as parse returned it                   *)

Login == <<"L", "o", "g", "i", "n">>
LoginButton == <<"L", "o", "g", "i", "n", "B", "u", "t", "t", "o", "n">>
LogIn2 == <<"L", "o", "g", "I", "n", "2">>

QueryBars == {2, 3}

QueryBodies ==
    {<<Tag("Canvas", 1)>>,
     <<Tag("Text", 2), Txt("name", Login)>>,
     <<Tag("Button", 3), Txt("name", LoginButton)>>,
     <<Tag("Text", 4), Txt("name", LogIn2)>>,
     <<Tag("Text", 5), Txt("name", OK)>>,
     <<Tag("Button", 6), Txt("name", OK), Tag("instanceId", 7)>>}

QueryLines == {Prefix(b) \o body : b \in QueryBars, body \in QueryBodies}

\* One process tree: a root marker followed by node lines
QueryDumps ==
    {<<Prefix(1) \o <<Tag("pid", 10)>>>> \o d :
        d \in UNION {[1..k -> QueryLines] : k \in 0..(MaxLines - 1)}}

SearchTexts == {Login, OK, LogIn2}
SearchTypes == {"Button", "Image", "ProcessRoot"}
SearchProperties == {[key |-> "instanceId", value |-> 7],
                     [key |-> "instanceId", value |-> 8]}

ButtonAndOK == [text |-> OK, type |-> "Button", properties |-> <<>>]
FiveConditions ==
    [text |-> OK, type |-> "Button",
     properties |-> <<[key |-> "instanceId", value |-> 7],
                      [key |-> "enabled", value |-> 1],
                      [key |-> "visible", value |-> 1]>>]
NoConditions == [text |-> <<>>, type |-> "", properties |-> <<>>]

SearchConditions == {ButtonAndOK, FiveConditions, NoConditions}

InitQuery ==
    /\ lines \in QueryDumps
    /\ i = 1
    /\ nodes = <<>>
    /\ forest = <<>>
    /\ stack = <<>>
    /\ pc = "parse"
    /\ result = NoResult
    /\ cmds = <<>>

FindByText ==
    /\ pc = "parsed"
    /\ \E k \in 1..Len(forest), text \in SearchTexts, exactMatch \in BOOLEAN :
          result' = [op |-> "findByText", root |-> forest[k].root, text |-> text,
                     exactMatch |-> exactMatch,
                     matches |-> findByText(nodes, forest[k].root, text, exactMatch)]
    /\ pc' = "answered"
    /\ UNCHANGED <<lines, i, nodes, forest, stack, cmds>>

FindByType ==
    /\ pc = "parsed"
    /\ \E k \in 1..Len(forest), type \in SearchTypes :
          result' = [op |-> "findByType", root |-> forest[k].root, type |-> type,
                     matches |-> findByType(nodes, forest[k].root, type)]
    /\ pc' = "answered"
    /\ UNCHANGED <<lines, i, nodes, forest, stack, cmds>>

FindByProperty ==
    /\ pc = "parsed"
    /\ \E k \in 1..Len(forest), p \in SearchProperties :
          result' = [op |-> "findByProperty", root |-> forest[k].root,
                     propertyName |-> p.key, propertyValue |-> p.value,
                     matches |-> findByProperty(nodes, forest[k].root, p.key, p.value)]
    /\ pc' = "answered"
    /\ UNCHANGED <<lines, i, nodes, forest, stack, cmds>>

FindByConditions ==
    /\ pc = "parsed"
    /\ \E k \in 1..Len(forest), conditions \in SearchConditions :
          result' = [op |-> "findByConditions", root |-> forest[k].root,
                     conditions |-> conditions,
                     matches |-> findByConditions(nodes, forest[k].root, conditions)]
    /\ pc' = "answered"
    /\ UNCHANGED <<lines, i, nodes, forest, stack, cmds>>

NextQuery ==
    \/ ParseLine
    \/ ParseReturn
    \/ FindByText
    \/ FindByType
    \/ FindByProperty
    \/ FindByConditions

SpecQuery == InitQuery /\ [][NextQuery]_vars

----------------------------------------------------------------------------
(* ElementLocator.getCoordinates *)

Rect(x, y, width, height) == [x |-> x, y |-> y, width |-> width, height |-> height]

\* A slip that would consult properties.position before the modifiers
getCoordinatesPositionFirst(node) ==
    LET modifiers == node.properties.modifiers
        position == node.properties.position
    IN IF position # <<>> /\ position[1].x # <<>> /\ position[1].y # <<>>
       THEN <<Rect(position[1].x[1], position[1].y[1],
                   IF position[1].width # <<>> THEN position[1].width[1] ELSE 0,
                   IF position[1].height # <<>> THEN position[1].height[1] ELSE 0)>>
       ELSE IF modifiers # <<>> /\ modifiers[1].boundsData # <<>>
       THEN modifiers[1].boundsData
       ELSE IF /\ modifiers # <<>>
               /\ modifiers[1].bounds.k = "string"
               /\ modifiers[1].bounds.v # <<>>
       THEN <<Rect(modifiers[1].bounds.v[1], modifiers[1].bounds.v[2],
                   modifiers[1].bounds.v[3], modifiers[1].bounds.v[4])>>
       ELSE <<>>

\* <<rect>>, or <<>> for null
getCoordinates(node) ==
    LET modifiers == node.properties.modifiers
        position == node.properties.position
    IN IF modifiers # <<>> /\ modifiers[1].boundsData # <<>>
       THEN modifiers[1].boundsData
       ELSE IF /\ modifiers # <<>>
               /\ modifiers[1].bounds.k = "string"
               /\ modifiers[1].bounds.v # <<>>
       THEN <<Rect(modifiers[1].bounds.v[1], modifiers[1].bounds.v[2],
                   modifiers[1].bounds.v[3], modifiers[1].bounds.v[4])>>
       ELSE IF position # <<>> /\ position[1].x # <<>> /\ position[1].y # <<>>
       THEN <<Rect(position[1].x[1], position[1].y[1],
                   IF position[1].width # <<>> THEN position[1].width[1] ELSE 0,
                   IF position[1].height # <<>> THEN position[1].height[1] ELSE 0)>>
       ELSE <<>>

----------------------------------------------------------------------------
(* HDC: the device commands the controller issues *)

MAX_COORDINATE_VALUE == 100000

\* Validator.validateCoordinate does not throw (value is a number in the model)
validCoordinate(value) == value >= 0 /\ value <= MAX_COORDINATE_VALUE

HidumperCommand(ok) == [kind |-> "hidumper", x |-> 0, y |-> 0, ok |-> ok]
ClickCommand(x, y, ok) == [kind |-> "click", x |-> x, y |-> y, ok |-> ok]

----------------------------------------------------------------------------
(* UIController *)

\* Math.round of k/2 for an integer k (round half up)
roundHalf(k) == (k + 1) \div 2

\* <<[x2, y2]>> holding twice the centre (x + width/2, y + height/2), or <<>>
extractCenterCoordinates(node) ==
    LET coords == getCoordinates(node)
    IN IF coords = <<>> THEN <<>>
       ELSE <<[x2 |-> 2 * coords[1].x + coords[1].width,
               y2 |-> 2 * coords[1].y + coords[1].height]>>

\* if (pid && currentPid !== pid) continue; pid is <<>> when not given
searched(pid, currentPid) == ~(pid # <<>> /\ pid[1] # 0 /\ currentPid # pid[1])

RECURSIVE collectMatches(_, _, _, _, _)
collectMatches(ns, trees, k, text, pid) ==
    IF k > Len(trees) THEN <<>>
    ELSE (IF searched(pid, trees[k].pid)
          THEN LET ms == findByText(ns, trees[k].root, text, FALSE)
               IN [j \in 1..Len(ms) |-> [node |-> ms[j].node, score |-> ms[j].score]]
          ELSE <<>>)
         \o collectMatches(ns, trees, k + 1, text, pid)

\* A slip that would return the matches as collected, tree after tree
sortAllMatchesMissing(ms) == ms

\* allMatches.sort((a, b) => b.score - a.score)
sortAllMatches(ms) == sortByScore(ms)

\* P is what RenderServiceParser.parse(uiTreeOutput) returned
findElementsByTextWithScore(P, text, pid) ==
    sortAllMatches(collectMatches(P.nodes, P.forest, 1, text, pid))

\* smartTap from "const targetMatch = matches[0]" on: the returned value and
\* the commands issued, the device accepting the click (tapOk) or failing it
smartTapTarget(P, matches, coordinates, tapOk) ==
    LET targetElement == matches[1].node
        tx == roundHalf(coordinates[1].x2)
        ty == roundHalf(coordinates[1].y2)
        caught == [op |-> "smartTap", success |-> FALSE, message |-> "tap failed",
                   element |-> <<>>, coordinates |-> <<>>, candidates |-> <<>>]
    IN IF coordinates = <<>>
       THEN [P |-> P,
             issued |-> <<HidumperCommand(TRUE)>>,
             value |-> [op |-> "smartTap", success |-> FALSE,
                        message |-> "no coordinates",
                        element |-> <<targetElement>>, coordinates |-> <<>>,
                        candidates |-> <<matches>>]]
       ELSE IF ~(validCoordinate(tx) /\ validCoordinate(ty))
       THEN [P |-> P, issued |-> <<HidumperCommand(TRUE)>>, value |-> caught]
       ELSE IF ~tapOk
       THEN [P |-> P,
             issued |-> <<HidumperCommand(TRUE), ClickCommand(tx, ty, FALSE)>>,
             value |-> caught]
       ELSE [P |-> P,
             issued |-> <<HidumperCommand(TRUE), ClickCommand(tx, ty, TRUE)>>,
             value |-> [op |-> "smartTap", success |-> TRUE, message |-> "tapped",
                        element |-> <<targetElement>>, coordinates |-> coordinates,
                        candidates |-> <<matches>>]]

\* smartTap from "if (matches.length === 0)" on
smartTapMatches(P, matches, tapOk) ==
    IF Len(matches) = 0
    THEN [P |-> P,
          issued |-> <<HidumperCommand(TRUE)>>,
          value |-> [op |-> "smartTap", success |-> FALSE, message |-> "not found",
                     element |-> <<>>, coordinates |-> <<>>, candidates |-> <<<<>>>>]]
    ELSE smartTapTarget(P, matches,
                        extractCenterCoordinates(P.nodes[matches[1].node]), tapOk)

\* smartTap once getUiTree has returned; P is parse(uiTreeOutput)
smartTapParsed(P, text, pid, tapOk) ==
    smartTapMatches(P, findElementsByTextWithScore(P, text, pid), tapOk)

\* The value smartTap returns, and the commands it issued on the way, when the
\* device answers getUiTree with the dump ls (treeOk) or fails it
smartTapOutcome(ls, text, pid, treeOk, tapOk) ==
    IF ~treeOk
    THEN [P |-> [nodes |-> <<>>, forest |-> <<>>, stack |-> <<>>],
          issued |-> <<HidumperCommand(FALSE)>>,
          value |-> [op |-> "smartTap", success |-> FALSE, message |-> "tap failed",
                     element |-> <<>>, coordinates |-> <<>>, candidates |-> <<>>]]
    ELSE smartTapParsed(parse(ls), text, pid, tapOk)

Bounded == <<"Bounds", "Frame">>

TapLines ==
    {Prefix(1) \o <<Tag("pid", 10)>>,
     Prefix(1) \o <<Tag("pid", 20)>>,
     Prefix(2) \o <<Tag("Text", 2), Txt("name", Login)>>,
     Prefix(2) \o <<Tag("Button", 3), Txt("name", LoginButton), Mods(Bounded)>>,
     Prefix(3) \o <<Tag("Canvas", 1)>>}

\* What the device may answer to getUiTree
TapDumps == UNION {[1..k -> TapLines] : k \in 0..MaxLines}

TapTexts == {Login, OK}
TapPids == {<<>>, <<10>>, <<20>>}

InitTap ==
    /\ lines \in TapDumps
    /\ i = 1
    /\ nodes = <<>>
    /\ forest = <<>>
    /\ stack = <<>>
    /\ pc = "idle"
    /\ result = NoResult
    /\ cmds = <<>>

\* smartTap(text, pid), from the call to the returned value; text and pid are
\* kept with the result for reading it
SmartTap ==
    /\ pc = "idle"
    /\ \E text \in TapTexts, pid \in TapPids, treeOk \in BOOLEAN, tapOk \in BOOLEAN :
          \E out \in {smartTapOutcome(lines, text, pid, treeOk, tapOk)} :
             /\ result' = [call |-> [text |-> text, pid |-> pid]] @@ out.value
             /\ cmds' = cmds \o out.issued
             /\ nodes' = out.P.nodes
             /\ forest' = out.P.forest
             /\ stack' = out.P.stack
    /\ pc' = "returned"
    /\ UNCHANGED <<lines, i>>

NextTap == SmartTap

SpecTap == InitTap /\ [][NextTap]_vars

----------------------------------------------------------------------------
(* Reading a parsed forest *)

Roots == {forest[k].root : k \in 1..Len(forest)}

\* The nodes of the tree under r, r included
RECURSIVE Subtree(_)
Subtree(r) ==
    {r} \cup UNION {Subtree(nodes[r].children[k]) : k \in 1..Len(nodes[r].children)}

ForestNodes == UNION {Subtree(r) : r \in Roots}

\* The nodes that hold n in their children list
ParentsOf(n) ==
    {p \in 1..Len(nodes) : \E k \in 1..Len(nodes[p].children) : nodes[p].children[k] = n}

IsRootLine(k) == ~isBlank(lines[k]) /\ pidMatch(lines[k]) # 0

IsNodeLine(k) ==
    /\ ~isBlank(lines[k])
    /\ pidMatch(lines[k]) = 0
    /\ countDepth(lines[k]) > 0
    /\ parseNodeLine(lines[k]) # <<>>

TreeLines == {k \in 1..Len(lines) : IsRootLine(k) \/ IsNodeLine(k)}

BeginsWithRoot == TreeLines # {} => IsRootLine(Min(TreeLines))

Max(S) == CHOOSE x \in S : \A y \in S : x >= y

\* No node line has more than one marker more than the tree line before it
StepsByOne ==
    \A k \in TreeLines :
        (IsNodeLine(k) /\ \E j \in TreeLines : j < k) =>
            countDepth(lines[k]) <=
                countDepth(lines[Max({j \in TreeLines : j < k})]) + 1

DistinctPids ==
    \A j, k \in TreeLines :
        (IsRootLine(j) /\ IsRootLine(k) /\ j # k) =>
            lines[j][pidMatch(lines[j])].n # lines[k][pidMatch(lines[k])].n

Markers(n) == countDepth(lines[nodes[n].src])

----------------------------------------------------------------------------
(* C1 *)

\* C1: after parse of a dump that begins with a root marker and whose node
\* lines never have more than one marker more than the tree line before them,
\* every non-root node of the forest has exactly one marker more than its
\* parent (so two consecutive node lines with the same marker count are
\* siblings).  The code attaches the second of two such lines under the first.
C1_DepthOneMoreThanParent ==
    (pc = "parsed" /\ BeginsWithRoot /\ StepsByOne) =>
        \A n \in ForestNodes \ Roots :
            \A p \in ParentsOf(n) : Markers(n) = Markers(p) + 1

----------------------------------------------------------------------------
(* C2 *)

\* C2: for a dump whose first tree line is a root marker and whose root
\* markers carry pairwise distinct pids, the forest returned by parse holds
\* exactly as many non-root nodes as the dump has node lines (lines other than
\* root markers, of depth > 0, matching type[id]); blank lines, depth-0 lines
\* and non-matching lines add nothing.
C2_NodeCount ==
    (pc = "parsed" /\ BeginsWithRoot /\ DistinctPids) =>
        Cardinality(ForestNodes \ Roots) =
            Cardinality({k \in 1..Len(lines) : IsNodeLine(k)})

\* Two node lines around a non-matching line of depth > 0, under one root
C2_Witness ==
    /\ pc = "parsed" /\ BeginsWithRoot /\ DistinctPids
    /\ Cardinality({k \in 1..Len(lines) : IsNodeLine(k)}) >= 2
    /\ \E k \in 1..Len(lines) :
          /\ ~isBlank(lines[k]) /\ pidMatch(lines[k]) = 0
          /\ countDepth(lines[k]) > 0 /\ parseNodeLine(lines[k]) = <<>>
    /\ Cardinality(ForestNodes \ Roots) >= 2

----------------------------------------------------------------------------
(* C3 *)

StrictlyIncreasing(s) == \A j, k \in 1..Len(s) : j < k => s[j] < s[k]

\* C3: in every forest returned by parse, each root has type ProcessRoot, id
\* pid-<n>, no parentId and is the map value of key n; every non-root node of
\* the forest is in the children list of exactly one node, once, and its
\* parentId is that node's id whatever parent[...] token its line carries;
\* every children list is in dump line order.
C3_ForestShape ==
    pc = "parsed" =>
        /\ \A k \in 1..Len(forest) :
              LET r == nodes[forest[k].root]
              IN /\ r.type = "ProcessRoot"
                 /\ r.id = IdStr("pid", forest[k].pid)
                 /\ r.pid = <<forest[k].pid>>
                 /\ r.parentId = <<>>
                 /\ \A j \in 1..Len(forest) : forest[j].pid = forest[k].pid => j = k
        /\ \A n \in ForestNodes \ Roots :
              /\ Cardinality(ParentsOf(n)) = 1
              /\ \A p \in ParentsOf(n) :
                    /\ Cardinality({k \in 1..Len(nodes[p].children) :
                                       nodes[p].children[k] = n}) = 1
                    /\ nodes[n].parentId = <<nodes[p].id>>
        /\ \A p \in ForestNodes :
              StrictlyIncreasing([k \in 1..Len(nodes[p].children) |->
                                     nodes[nodes[p].children[k]].src])

\* A forest node whose line carries a parent[...] token, and a node with two
\* children
C3_Witness ==
    /\ pc = "parsed"
    /\ \E n \in ForestNodes \ Roots :
          firstTok(lines[nodes[n].src], "tag", "parent") # 0
    /\ \E p \in ForestNodes : Len(nodes[p].children) >= 2

----------------------------------------------------------------------------
(* Reading a query result *)

\* The scores with which node n is returned
ScoresOf(n) == {result.matches[k].score : k \in {j \in 1..Len(result.matches) :
                                                     result.matches[j].node = n}}

TimesReturned(n) ==
    Cardinality({k \in 1..Len(result.matches) : result.matches[k].node = n})

ReturnedWith(n, score) == TimesReturned(n) = 1 /\ ScoresOf(n) = {score}

\* Position of n in the depth-first (pre-order) traversal from root
DfsPosition(root, n) ==
    CHOOSE k \in 1..Len(walk(nodes, root, <<>>)) : walk(nodes, root, <<>>)[k].node = n

\* The nodes from root down to n, both included
RECURSIVE Chain(_, _)
Chain(root, n) ==
    IF n = root THEN <<root>>
    ELSE Append(Chain(root, CHOOSE p \in ParentsOf(n) : TRUE), n)

Named(root, name) == {n \in Subtree(root) : nodes[n].name = name}

----------------------------------------------------------------------------
(* C4 *)

----------------------------------------------------------------------------
(* C5 *)

\* C5: for findByConditions with type="Button" and text="OK", a node that
\* satisfies only the type condition has a strictly lower score than a node
\* that satisfies both.  In the code both are clamped to 100.
C5_TypeOnlyScoresLower ==
    (result.op = "findByConditions" /\ result.conditions = ButtonAndOK) =>
        \A j, k \in 1..Len(result.matches) :
            LET a == nodes[result.matches[j].node]
                b == nodes[result.matches[k].node]
            IN (/\ typeConditionHolds(a, ButtonAndOK)
                /\ ~textConditionHolds(a, ButtonAndOK)
                /\ typeConditionHolds(b, ButtonAndOK)
                /\ textConditionHolds(b, ButtonAndOK))
               => result.matches[j].score < result.matches[k].score

----------------------------------------------------------------------------
(* C6 *)

IsQuery == result.op \in {"findByText", "findByType", "findByProperty", "findByConditions"}

\* Non-increasing scores, equal scores in depth-first discovery order
RankedByScore ==
    \A j, k \in 1..Len(result.matches) :
        j < k =>
            \/ result.matches[j].score > result.matches[k].score
            \/ /\ result.matches[j].score = result.matches[k].score
               /\ DfsPosition(result.root, result.matches[j].node)
                      < DfsPosition(result.root, result.matches[k].node)

InDiscoveryOrder ==
    \A j, k \in 1..Len(result.matches) :
        j < k => DfsPosition(result.root, result.matches[j].node)
                     < DfsPosition(result.root, result.matches[k].node)

----------------------------------------------------------------------------
(* C7 *)

ScenarioDump ==
    <<Prefix(1) \o <<Tag("pid", 10)>>,
      Prefix(2) \o <<Tag("Canvas", 1)>>,
      Prefix(3) \o <<Tag("Text", 5), Txt("name", OK)>>>>

\* C7: the path of every Match is the list of labels of the nodes from the
\* queried root down to the matched node, both included, a label being
\* type(name) for a named node and type otherwise; for the dump pid[10] /
\* Canvas[1] / Text[..] name[OK] with 1, 2 and 3 markers, parse yields one
\* forest entry and findByText(root, "OK") returns exactly one match, with
\* score 100 and path [ProcessRoot, Canvas, Text(OK)].
C7_PathIsAncestorLabels ==
    IsQuery =>
        /\ \A k \in 1..Len(result.matches) :
              LET chain == Chain(result.root, result.matches[k].node)
              IN result.matches[k].path =
                     [j \in 1..Len(chain) |->
                         IF nodes[chain[j]].name # <<>>
                         THEN <<nodes[chain[j]].type, "(">> \o nodes[chain[j]].name
                                  \o <<")">>
                         ELSE <<nodes[chain[j]].type>>]
        /\ (lines = ScenarioDump /\ result.op = "findByText" /\ result.text = OK) =>
              /\ Len(forest) = 1
              /\ Len(result.matches) = 1
              /\ result.matches[1].score = 100
              /\ result.matches[1].path =
                     <<<<"ProcessRoot">>, <<"Canvas">>, <<"Text", "(", "O", "K", ")">>>>

\* findByText(root, "OK") answered on the three-line dump
C7_Witness ==
    /\ lines = ScenarioDump
    /\ result.op = "findByText" /\ result.text = OK /\ ~result.exactMatch
    /\ Len(result.matches) = 1
    /\ Len(result.matches[1].path) = 3

----------------------------------------------------------------------------
(* C8 *)

\* C8: findByType(root, T) returns exactly the nodes of the tree under root,
\* root included, whose type is T, each once and with score 80; when no node
\* has type T the result is the empty list.
C8_FindByTypeExact ==
    result.op = "findByType" =>
        LET typed == {n \in Subtree(result.root) : nodes[n].type = result.type}
        IN /\ {result.matches[k].node : k \in 1..Len(result.matches)} = typed
           /\ Len(result.matches) = Cardinality(typed)
           /\ \A k \in 1..Len(result.matches) : result.matches[k].score = 80
           /\ typed = {} => result.matches = <<>>

\* Buttons found in a tree that also holds nodes of other types
C8_Witness ==
    /\ result.op = "findByType" /\ result.type = "Button"
    /\ Len(result.matches) >= 2
    /\ \E n \in Subtree(result.root) \ {result.root} : nodes[n].type # "Button"

----------------------------------------------------------------------------
(* Reading a smartTap result *)

Clicks == {k \in 1..Len(cmds) : cmds[k].kind = "click"}

\* getUiTree returned the dump
TreeReturned == Len(cmds) >= 1 /\ cmds[1].kind = "hidumper" /\ cmds[1].ok

\* The forest entries smartTap searches, in map order
SearchedEntries ==
    SelectSeq(forest, LAMBDA e : result.call.pid = <<>> \/ e.pid = result.call.pid[1])

\* The nodes of the searched trees in the order the search meets them
RECURSIVE SearchOrderFrom(_)
SearchOrderFrom(k) ==
    IF k > Len(SearchedEntries) THEN <<>>
    ELSE LET w == walk(nodes, SearchedEntries[k].root, <<>>)
         IN [j \in 1..Len(w) |-> w[j].node] \o SearchOrderFrom(k + 1)

SearchOrder == SearchOrderFrom(1)

SearchPosition(n) == CHOOSE k \in 1..Len(SearchOrder) : SearchOrder[k] = n

\* The nodes whose name contains the text, case-insensitively
Matching ==
    {n \in {SearchOrder[k] : k \in 1..Len(SearchOrder)} :
        /\ nodes[n].name # <<>>
        /\ includes(toLowerCase(nodes[n].name), toLowerCase(result.call.text))}

Outranks(n, m) ==
    \/ calculateScore(nodes[n], result.call.text) > calculateScore(nodes[m], result.call.text)
    \/ /\ calculateScore(nodes[n], result.call.text)
              = calculateScore(nodes[m], result.call.text)
       /\ SearchPosition(n) <= SearchPosition(m)

FirstRanked == CHOOSE n \in Matching : \A m \in Matching : Outranks(n, m)

----------------------------------------------------------------------------
(* C10 *)

\* C10: smartTap issues a tap command only in its success outcome.  When the
\* text matches no node it returns success=false with an empty candidate list;
\* when a match exists but no coordinates can be derived for the first-ranked
\* one it returns success=false with every match as candidates, in descending
\* score order; in neither case is a tap command issued, and every call ends
\* in a returned value.
C10_TapOnlyOnSuccess ==
    result.op = "smartTap" =>
        /\ result.success \in BOOLEAN
        /\ Clicks # {} => result.success
        /\ (TreeReturned /\ Matching = {}) =>
              /\ ~result.success
              /\ result.candidates = <<<<>>>>
              /\ Clicks = {}
        /\ (TreeReturned /\ Matching # {}
              /\ getCoordinates(nodes[FirstRanked]) = <<>>) =>
              /\ ~result.success
              /\ Clicks = {}
              /\ Len(result.candidates) = 1
              /\ LET c == result.candidates[1]
                 IN /\ {c[k].node : k \in 1..Len(c)} = Matching
                    /\ Len(c) = Cardinality(Matching)
                    /\ \A k \in 1..Len(c) :
                          c[k].score = calculateScore(nodes[c[k].node], result.call.text)
                    /\ \A j, k \in 1..Len(c) : j < k => c[j].score >= c[k].score

\* A failure for want of coordinates whose candidates were met in the other
\* order: the better match sits in a later tree
C10_Witness ==
    /\ result.op = "smartTap" /\ TreeReturned /\ ~result.success
    /\ Matching # {}
    /\ getCoordinates(nodes[FirstRanked]) = <<>>
    /\ Len(result.candidates) = 1
    /\ Len(result.candidates[1]) >= 2
    /\ result.candidates[1][1].score > result.candidates[1][2].score
    /\ SearchPosition(result.candidates[1][1].node)
           > SearchPosition(result.candidates[1][2].node)

----------------------------------------------------------------------------
(* ElementLocator.getCoordinates on any UINode a caller may hand it *)

\* Values a coordinate field may hold
CoordValues == {0, 7, 40}

OptCoord == {<<>>} \cup {<<v>> : v \in CoordValues}

\* properties.position: absent, or an object with any of x, y, width, height
Positions ==
    {<<>>} \cup {<<p>> : p \in [x : OptCoord, y : OptCoord,
                                width : OptCoord, height : OptCoord]}

\* modifiers.bounds: absent, the flag parseModifiers sets, a string without
\* the bracketed form, a string "[3, 5, 20, 10]"
BoundsValues ==
    {BoundsUndefined, BoundsTrue, BoundsString(<<>>), BoundsString(<<3, 5, 20, 10>>)}

\* properties.modifiers: absent, or an object
ModifierValues ==
    {<<>>} \cup {<<m>> : m \in [backgroundColor : {<<>>},
                                bounds : BoundsValues,
                                boundsData : {<<>>, <<Rect(1, 2, 30, 4)>>},
                                frame : {FALSE}]}

CoordNodes ==
    {[id |-> IdStr("Button", 3), type |-> "Button", name |-> <<OK>>, pid |-> <<>>,
      frameNodeId |-> <<>>, frameNodeTag |-> <<>>, parentId |-> <<>>,
      children |-> <<>>,
      properties |-> [instanceId |-> <<>>, modifiers |-> m, position |-> p],
      src |-> 0] : m \in ModifierValues, p \in Positions}

InitCoords ==
    /\ lines = <<>>
    /\ i = 1
    /\ nodes \in {<<n>> : n \in CoordNodes}
    /\ forest = <<>>
    /\ stack = <<>>
    /\ pc = "idle"
    /\ result = NoResult
    /\ cmds = <<>>

\* ElementLocator.getCoordinates(node)
GetCoordinates ==
    /\ pc = "idle"
    /\ result' = [op |-> "getCoordinates", value |-> getCoordinates(nodes[1])]
    /\ pc' = "returned"
    /\ UNCHANGED <<lines, i, nodes, forest, stack, cmds>>

NextCoords == GetCoordinates

SpecCoords == InitCoords /\ [][NextCoords]_vars

----------------------------------------------------------------------------
(* C11 *)

CoordsReturned == pc = "returned" /\ result.op = "getCoordinates"

HasBoundsData ==
    nodes[1].properties.modifiers # <<>>
    /\ nodes[1].properties.modifiers[1].boundsData # <<>>

HasBoundsString ==
    /\ nodes[1].properties.modifiers # <<>>
    /\ nodes[1].properties.modifiers[1].bounds.k = "string"
    /\ nodes[1].properties.modifiers[1].bounds.v # <<>>

HasPosition ==
    /\ nodes[1].properties.position # <<>>
    /\ nodes[1].properties.position[1].x # <<>>
    /\ nodes[1].properties.position[1].y # <<>>

OrZero(opt) == IF opt = <<>> THEN 0 ELSE opt[1]

\* C11: getCoordinates returns modifiers.boundsData when present; otherwise
\* the four integers of a bracketed modifiers.bounds string; otherwise the
\* rectangle of properties.position when it has both x and y, width and
\* height defaulting to 0; otherwise none. The earlier source always wins.
C11_CoordinatePriority ==
    CoordsReturned =>
        LET props == nodes[1].properties
        IN IF HasBoundsData
           THEN result.value = props.modifiers[1].boundsData
           ELSE IF HasBoundsString
           THEN result.value = <<[x |-> props.modifiers[1].bounds.v[1],
                                  y |-> props.modifiers[1].bounds.v[2],
                                  width |-> props.modifiers[1].bounds.v[3],
                                  height |-> props.modifiers[1].bounds.v[4]]>>
           ELSE IF HasPosition
           THEN result.value = <<[x |-> props.position[1].x[1],
                                  y |-> props.position[1].y[1],
                                  width |-> OrZero(props.position[1].width),
                                  height |-> OrZero(props.position[1].height)]>>
           ELSE result.value = <<>>

\* All three sources are present and differ; the structured bounds were returned
C11_Witness ==
    /\ CoordsReturned
    /\ HasBoundsData /\ HasBoundsString /\ HasPosition
    /\ nodes[1].properties.position[1].width = <<>>
    /\ result.value = <<Rect(1, 2, 30, 4)>>

----------------------------------------------------------------------------
(* HDC.tap, HDC.swipe, HDC.pressKey *)

\* A JavaScript number: NaN, or the integer v
NaN == [nan |-> TRUE, v |-> 0]
Num(v) == [nan |-> FALSE, v |-> v]

\* A slip that would let NaN through the range test (NaN < 0 and NaN > max
\* are both false)
validateCoordinateNoNaNTest(value) == value.nan \/ validCoordinate(value.v)

\* Validator.validateCoordinate returns without throwing
validateCoordinate(value) == ~value.nan /\ validCoordinate(value.v)

\* Validator.validateKeyName returns without throwing; key is a string
validateKeyName(key) == key # ""

\* A slip that would leave out the lower clamp
swipeVelocityNoFloor(duration) ==
    IF duration.nan THEN NaN
    ELSE LET r == duration.v * 100
         IN Num(IF r > 40000 THEN 40000 ELSE r)

\* Math.max(200, Math.min(40000, Math.round(duration * 100))); Math.min and
\* Math.max give NaN when an argument is NaN
swipeVelocity(duration) ==
    IF duration.nan THEN NaN
    ELSE LET r == duration.v * 100
             m == IF r > 40000 THEN 40000 ELSE r
         IN Num(IF m < 200 THEN 200 ELSE m)

DEFAULT_DURATION == 300

KeyCommand(key, ok) == [kind |-> "keyEvent", key |-> key, ok |-> ok]
SwipeCommand(x1, y1, x2, y2, velocity, ok) ==
    [kind |-> "swipe", x |-> x1, y |-> y1, x2 |-> x2, y2 |-> y2,
     velocity |-> velocity, ok |-> ok]

\* What a call of an HDC method does: the commands it hands to shell, and
\* whether it throws (validation, or shell failing the command)
Thrown == [threw |-> TRUE, issued |-> <<>>]
Shelled(cmd, ok) == [threw |-> ~ok, issued |-> <<cmd>>]

\* HDC.tap(x, y); the device runs the command (ok) or fails it
hdcTap(x, y, ok) ==
    IF ~validateCoordinate(x) THEN Thrown
    ELSE IF ~validateCoordinate(y) THEN Thrown
    ELSE Shelled(ClickCommand(x.v, y.v, ok), ok)

\* HDC.swipe(x1, y1, x2, y2, duration); duration is <<>> when not given
hdcSwipe(x1, y1, x2, y2, duration, ok) ==
    LET d == IF duration = <<>> THEN Num(DEFAULT_DURATION) ELSE duration[1]
    IN IF ~validateCoordinate(x1) THEN Thrown
       ELSE IF ~validateCoordinate(y1) THEN Thrown
       ELSE IF ~validateCoordinate(x2) THEN Thrown
       ELSE IF ~validateCoordinate(y2) THEN Thrown
       ELSE IF ~d.nan /\ d.v < 0 THEN Thrown
       ELSE Shelled(SwipeCommand(x1.v, y1.v, x2.v, y2.v, swipeVelocity(d), ok), ok)

\* HDC.pressKey(key)
hdcPressKey(key, ok) ==
    IF ~validateKeyName(key) THEN Thrown
    ELSE Shelled(KeyCommand(key, ok), ok)

\* Arguments a caller may pass
HdcCoords == {NaN, Num(-1), Num(0), Num(50), Num(MAX_COORDINATE_VALUE),
              Num(MAX_COORDINATE_VALUE + 1)}
HdcDurations == {<<>>, <<NaN>>, <<Num(-1)>>, <<Num(0)>>, <<Num(1)>>, <<Num(2)>>,
                 <<Num(DEFAULT_DURATION)>>, <<Num(400)>>, <<Num(500)>>}
HdcKeys == {"", "Back", "Home"}

InitHdc ==
    /\ lines = <<>>
    /\ i = 1
    /\ nodes = <<>>
    /\ forest = <<>>
    /\ stack = <<>>
    /\ pc = "idle"
    /\ result = NoResult
    /\ cmds = <<>>

HdcTap ==
    /\ pc = "idle"
    /\ \E x \in HdcCoords, y \in HdcCoords, ok \in BOOLEAN :
          \E out \in {hdcTap(x, y, ok)} :
             /\ result' = [op |-> "tap", args |-> <<x, y>>, threw |-> out.threw]
             /\ cmds' = cmds \o out.issued
    /\ pc' = "returned"
    /\ UNCHANGED <<lines, i, nodes, forest, stack>>

HdcSwipe ==
    /\ pc = "idle"
    /\ \E x1 \in HdcCoords, y1 \in HdcCoords, x2 \in HdcCoords, y2 \in HdcCoords,
          duration \in HdcDurations, ok \in BOOLEAN :
          \E out \in {hdcSwipe(x1, y1, x2, y2, duration, ok)} :
             /\ result' = [op |-> "swipe", args |-> <<x1, y1, x2, y2>>,
                           duration |-> duration, threw |-> out.threw]
             /\ cmds' = cmds \o out.issued
    /\ pc' = "returned"
    /\ UNCHANGED <<lines, i, nodes, forest, stack>>

HdcPressKey ==
    /\ pc = "idle"
    /\ \E key \in HdcKeys, ok \in BOOLEAN :
          \E out \in {hdcPressKey(key, ok)} :
             /\ result' = [op |-> "pressKey", key |-> key, threw |-> out.threw]
             /\ cmds' = cmds \o out.issued
    /\ pc' = "returned"
    /\ UNCHANGED <<lines, i, nodes, forest, stack>>

NextHdc == HdcTap \/ HdcSwipe \/ HdcPressKey

SpecHdc == InitHdc /\ [][NextHdc]_vars

----------------------------------------------------------------------------
(* C12 *)

\* NaN, negative or greater than 100000
BadCoordinate(value) == value.nan \/ value.v < 0 \/ value.v > 100000

InvalidCall ==
    \/ /\ result.op \in {"tap", "swipe"}
       /\ \E k \in 1..Len(result.args) : BadCoordinate(result.args[k])
    \/ /\ result.op = "swipe"
       /\ result.duration # <<>>
       /\ ~result.duration[1].nan
       /\ result.duration[1].v < 0
    \/ /\ result.op = "pressKey"
       /\ result.key = ""

\* C12: tap and swipe given a coordinate that is NaN, negative or greater
\* than 100000, swipe given a negative duration, and pressKey given an empty
\* key, fail with an error and no device command is issued, also when the
\* invalid value is the last argument and all earlier ones are valid.
C12_InvalidInputNoCommand ==
    (pc = "returned" /\ InvalidCall) => (result.threw /\ cmds = <<>>)

\* swipe with four valid coordinates and a negative duration has thrown
C12_Witness ==
    /\ pc = "returned"
    /\ result.op = "swipe"
    /\ \A k \in 1..4 : ~BadCoordinate(result.args[k])
    /\ result.duration = <<Num(-1)>>
    /\ result.threw
    /\ cmds = <<>>

----------------------------------------------------------------------------
(* UIController.waitForElement *)

DEFAULT_POLL_INTERVAL == 500
DEFAULT_WAIT_TIMEOUT == 10000
MAX_RETRY_COUNT == 3

\* allMatches.sort(...).map(m => m.node) of findElementsByText
findElementsByText(P, text, pid) ==
    LET ms == sortByScore(collectMatches(P.nodes, P.forest, 1, text, pid))
    IN [j \in 1..Len(ms) |-> ms[j].node]

\* A slip that would let the iteration at the very deadline run
deadlineNotReachedInclusive(elapsed, timeout) == ~timeout.nan /\ elapsed <= timeout.v

\* Date.now() - startTime < timeout; a comparison with NaN is false
deadlineNotReached(elapsed, timeout) == ~timeout.nan /\ elapsed < timeout.v

\* A slip that would take the default for every falsy timeout (timeout || ...)
timeoutOfFalsyDefault(timeout) ==
    IF timeout = <<>> \/ timeout[1].nan \/ timeout[1].v = 0
    THEN Num(DEFAULT_WAIT_TIMEOUT) ELSE timeout[1]

\* The timeout in force; timeout is <<>> when the caller gave none
timeoutOf(timeout) == IF timeout = <<>> THEN Num(DEFAULT_WAIT_TIMEOUT) ELSE timeout[1]

\* What the device may answer to getUiTree while a wait is polling
WaitDumps ==
    {<<Prefix(1) \o <<Tag("pid", 10)>>,
       Prefix(2) \o <<Tag("Text", 5), Txt("name", OK)>>>>,
     <<Prefix(1) \o <<Tag("pid", 10)>>,
       Prefix(2) \o <<Tag("Button", 3), Txt("name", LoginButton)>>,
       Prefix(2) \o <<Tag("Text", 2), Txt("name", Login)>>>>,
     <<Prefix(1) \o <<Tag("pid", 20)>>,
       Prefix(2) \o <<Tag("Text", 2), Txt("name", Login)>>>>}

WaitTimeouts == {<<>>, <<NaN>>, <<Num(0)>>, <<Num(1200)>>, <<Num(3000)>>}
WaitPids == {<<>>, <<10>>}

\* Milliseconds getUiTree may take, and the timer of the poll interval may
\* take (it fires no sooner than asked)
TreeDelays == {0, 1000}
SleepDelays == {DEFAULT_POLL_INTERVAL, 2 * DEFAULT_POLL_INTERVAL}

InitWait ==
    /\ lines = <<>>
    /\ i = 1
    /\ nodes = <<>>
    /\ forest = <<>>
    /\ stack = <<>>
    /\ pc = "idle"
    /\ result = NoResult
    /\ cmds = <<>>

\* waitForElement(text, timeout, pid) is called: startTime and retryCount
\* are set; elapsed is Date.now() - startTime
WaitForElement ==
    /\ pc = "idle"
    /\ \E timeout \in WaitTimeouts, pid \in WaitPids :
          result' = [op |-> "waitForElement", text |-> Login, timeout |-> timeout,
                     pid |-> pid, retryCount |-> 0, elapsed |-> 0,
                     returned |-> "pending", element |-> <<>>]
    /\ pc' = "top"
    /\ UNCHANGED <<lines, i, nodes, forest, stack, cmds>>

\* The loop condition
WaitTop ==
    /\ pc = "top"
    /\ IF deadlineNotReached(result.elapsed, timeoutOf(result.timeout))
       THEN pc' = "poll" /\ UNCHANGED result
       ELSE pc' = "returned" /\ result' = [result EXCEPT !.returned = "null"]
    /\ UNCHANGED <<lines, i, nodes, forest, stack, cmds>>

\* The try block of one iteration with its catch: the device fails the dump
WaitPollFails ==
    /\ pc = "poll"
    /\ \E dt \in TreeDelays :
          result' = [result EXCEPT
                        !.elapsed = @ + dt,
                        !.retryCount = @ + 1,
                        !.returned = IF result.retryCount + 1 >= MAX_RETRY_COUNT
                                     THEN "throw" ELSE @]
    /\ pc' = IF result.retryCount + 1 >= MAX_RETRY_COUNT THEN "raised" ELSE "sleep"
    /\ cmds' = Append(cmds, HidumperCommand(FALSE))
    /\ UNCHANGED <<lines, i, nodes, forest, stack>>

\* The try block of one iteration: the device answers with a dump
WaitPollAnswers ==
    /\ pc = "poll"
    /\ \E dt \in TreeDelays, ls \in WaitDumps :
          \E P \in {parse(ls)} :
             \E elements \in {findElementsByText(P, result.text, result.pid)} :
                /\ lines' = ls
                /\ nodes' = P.nodes
                /\ forest' = P.forest
                /\ stack' = P.stack
                /\ IF Len(elements) > 0
                   THEN /\ result' = [result EXCEPT !.elapsed = @ + dt,
                                                    !.returned = "element",
                                                    !.element = <<elements[1]>>]
                        /\ pc' = "returned"
                   ELSE /\ result' = [result EXCEPT !.elapsed = @ + dt]
                        /\ pc' = "sleep"
    /\ cmds' = Append(cmds, HidumperCommand(TRUE))
    /\ UNCHANGED i

\* await new Promise(resolve => setTimeout(resolve, DEFAULT_POLL_INTERVAL))
WaitSleep ==
    /\ pc = "sleep"
    /\ \E dt \in SleepDelays : result' = [result EXCEPT !.elapsed = @ + dt]
    /\ pc' = "top"
    /\ UNCHANGED <<lines, i, nodes, forest, stack, cmds>>

NextWait ==
    WaitForElement \/ WaitTop \/ WaitPollFails \/ WaitPollAnswers \/ WaitSleep

SpecWait == InitWait /\ [][NextWait]_vars

\* Every device call and every timer returns: a wait that can take a step
\* takes one
SpecWaitFair == SpecWait /\ WF_vars(NextWait)

----------------------------------------------------------------------------
(* C13, C14 *)

\* The ingestion attempts made so far, and how many of the latest failed in a row
Attempts == Len(cmds)
RECURSIVE FailedInARowFrom(_)
FailedInARowFrom(k) ==
    IF k = 0 \/ cmds[k].ok THEN 0 ELSE 1 + FailedInARowFrom(k - 1)
FailedInARow == FailedInARowFrom(Attempts)

\* C13: the polling wait raises exactly when 3 ingestion attempts in a row
\* have failed; errors separated by a successful ingestion do not accumulate.
C13_RaisesOnlyOnThreeInARow ==
    (pc = "raised") <=> (FailedInARow >= 3)

\* The wall-clock deadline (10000 ms when the caller gave no timeout) is over;
\* a NaN timeout leaves no time at all
DeadlinePassed ==
    IF result.timeout = <<>> THEN result.elapsed >= 10000
    ELSE result.timeout[1].nan \/ result.elapsed >= result.timeout[1].v

\* C14: the deadline is looked at only at the top of an iteration, where a
\* passed deadline makes the wait return null, never raise; an iteration
\* begun before the deadline runs to its end; and a wait none of whose
\* ingestions failed never raises.
C14_DeadlineAtTopReturnsNull ==
    [][/\ (pc = "top" /\ DeadlinePassed)
           => (pc' = "returned" /\ result'.returned = "null")
       /\ (pc = "top" /\ ~DeadlinePassed) => pc' = "poll"
       /\ (pc \in {"poll", "sleep"}) => result'.returned # "null"
       /\ (pc' = "raised") => \E k \in 1..Len(cmds') : ~cmds'[k].ok]_vars

\* Every ingestion succeeded, none matched, the deadline passed while one
\* was under way, and the wait returned null
C14_Witness ==
    /\ pc = "returned"
    /\ result.op = "waitForElement"
    /\ result.returned = "null"
    /\ result.timeout = <<Num(1200)>>
    /\ Attempts = 2
    /\ \A k \in 1..Attempts : cmds[k].ok

----------------------------------------------------------------------------
(* UIController: tapElement, findElements, swipe; all public operations *)

DEFAULT_SWIPE_DURATION == 300

\* tapElement(node): the returned value and the commands issued
tapElement(node, tapOk) ==
    LET coordinates == extractCenterCoordinates(node)
    IN IF coordinates = <<>>
       THEN [issued |-> <<>>,
             value |-> [success |-> FALSE, message |-> "no coordinates",
                        coordinates |-> <<>>]]
       ELSE LET out == hdcTap(Num(roundHalf(coordinates[1].x2)),
                              Num(roundHalf(coordinates[1].y2)), tapOk)
            IN [issued |-> out.issued,
                value |-> IF out.threw
                          THEN [success |-> FALSE, message |-> "tap failed",
                                coordinates |-> <<>>]
                          ELSE [success |-> TRUE, message |-> "tapped",
                                coordinates |-> coordinates]]

RECURSIVE collectConditionMatches(_, _, _, _, _)
collectConditionMatches(ns, trees, k, conditions, pid) ==
    IF k > Len(trees) THEN <<>>
    ELSE (IF searched(pid, trees[k].pid)
          THEN LET ms == findByConditions(ns, trees[k].root, conditions)
               IN [j \in 1..Len(ms) |-> [node |-> ms[j].node, score |-> ms[j].score]]
          ELSE <<>>)
         \o collectConditionMatches(ns, trees, k + 1, conditions, pid)

\* findElements once getUiTree has returned; P is parse(uiTreeOutput)
findElementsParsed(P, conditions, pid) ==
    LET ms == sortByScore(collectConditionMatches(P.nodes, P.forest, 1, conditions, pid))
    IN [j \in 1..Len(ms) |-> ms[j].node]

\* UIController.swipe: Math.round leaves NaN and the integers as they are
controllerSwipe(startX, startY, endX, endY, duration, ok) ==
    LET d == IF duration = <<>> THEN <<Num(DEFAULT_SWIPE_DURATION)>> ELSE duration
        out == hdcSwipe(startX, startY, endX, endY, d, ok)
    IN [issued |-> out.issued,
        value |-> [success |-> ~out.threw,
                   message |-> IF out.threw THEN "swipe failed" ELSE "swiped"]]

ControllerDumps == WaitDumps
ControllerConditions == {ButtonAndOK, NoConditions}
ControllerCoords == {NaN, Num(-1), Num(50)}
ControllerDurations == {<<>>, <<Num(-1)>>, <<Num(500)>>}

\* The device holds a screen; no operation has been called
InitController ==
    /\ lines \in ControllerDumps
    /\ i = 1
    /\ nodes = <<>>
    /\ forest = <<>>
    /\ stack = <<>>
    /\ pc = "idle"
    /\ result = NoResult
    /\ cmds = <<>>

TapElement ==
    /\ pc = "idle"
    /\ \E node \in CoordNodes, tapOk \in BOOLEAN :
          \E out \in {tapElement(node, tapOk)} :
             /\ result' = [op |-> "tapElement", node |-> node] @@ out.value
             /\ cmds' = cmds \o out.issued
    /\ pc' = "returned"
    /\ UNCHANGED <<lines, i, nodes, forest, stack>>

\* findElements when the device fails getUiTree: nothing catches the error
FindElementsFails ==
    /\ pc = "idle"
    /\ \E conditions \in ControllerConditions, pid \in WaitPids :
          result' = [op |-> "findElements", conditions |-> conditions, pid |-> pid,
                     returned |-> "throw", elements |-> <<>>]
    /\ cmds' = Append(cmds, HidumperCommand(FALSE))
    /\ pc' = "raised"
    /\ UNCHANGED <<lines, i, nodes, forest, stack>>

\* findElements when the device answers with the dump of its screen
FindElementsAnswers ==
    /\ pc = "idle"
    /\ \E conditions \in ControllerConditions, pid \in WaitPids :
          \E P \in {parse(lines)} :
             /\ result' = [op |-> "findElements", conditions |-> conditions,
                           pid |-> pid, returned |-> "value",
                           elements |-> findElementsParsed(P, conditions, pid)]
             /\ nodes' = P.nodes
             /\ forest' = P.forest
             /\ stack' = P.stack
    /\ cmds' = Append(cmds, HidumperCommand(TRUE))
    /\ pc' = "returned"
    /\ UNCHANGED <<lines, i>>

ControllerSwipe ==
    /\ pc = "idle"
    /\ \E startX \in ControllerCoords, startY \in ControllerCoords,
          endX \in ControllerCoords, endY \in ControllerCoords,
          duration \in ControllerDurations, ok \in BOOLEAN :
          \E out \in {controllerSwipe(startX, startY, endX, endY, duration, ok)} :
             /\ result' = [op |-> "swipe", args |-> <<startX, startY, endX, endY>>,
                           duration |-> duration] @@ out.value
             /\ cmds' = cmds \o out.issued
    /\ pc' = "returned"
    /\ UNCHANGED <<lines, i, nodes, forest, stack>>

NextController ==
    \/ SmartTap
    \/ TapElement
    \/ FindElementsFails
    \/ FindElementsAnswers
    \/ ControllerSwipe
    \/ WaitForElement
    \/ WaitTop
    \/ WaitPollFails
    \/ WaitPollAnswers
    \/ WaitSleep

SpecController == InitController /\ [][NextController]_vars

----------------------------------------------------------------------------
(* C15 *)

\* C15: every public UIController operation (smartTap, tapElement,
\* waitForElement, findElements, swipe) reports a failure of the device
\* channel as a returned value and never raises an exception to its caller.
C15_ControllerNeverRaises ==
    /\ pc # "raised"
    /\ (pc = "returned" /\ \E k \in 1..Len(cmds) : ~cmds[k].ok)
          => \/ result.op \in {"smartTap", "tapElement", "swipe"} /\ ~result.success
             \/ result.op = "findElements" /\ result.elements = <<>>
             \/ result.op = "waitForElement"

----------------------------------------------------------------------------
(* C16 *)

\* The node satisfies every condition the caller supplied
SatisfiesAll(node, conditions) ==
    /\ conditions.text # <<>> => textConditionHolds(node, conditions)
    /\ conditions.type # "" => typeConditionHolds(node, conditions)
    /\ \A k \in 1..Len(conditions.properties) :
          propertyEquals(node, conditions.properties[k].key,
                         conditions.properties[k].value)

\* C16: findByConditions applies AND logic: a node is returned only if it
\* satisfies every condition supplied (the text condition, the type
\* condition and each listed property).
C16_ConditionsAreConjoined ==
    (pc = "answered" /\ result.op = "findByConditions") =>
        \A j \in 1..Len(result.matches) :
            SatisfiesAll(nodes[result.matches[j].node], result.conditions)

----------------------------------------------------------------------------
(* HDC: application commands, screenshot, plain dumps *)

\* A shell command other than the input commands, by its first words
ShellCommand(kind, ok) == [kind |-> kind, ok |-> ok]

Digits == <<"0", "1", "2", "3", "4", "5", "6", "7", "8", "9">>

\* /^[a-zA-Z0-9._]+$/.test(name), after the test that name is not empty
validName(name) ==
    /\ name # <<>>
    /\ \A k \in 1..Len(name) :
          \/ \E u \in 1..Len(UpperCase) : UpperCase[u] = name[k]
          \/ \E u \in 1..Len(LowerCase) : LowerCase[u] = name[k]
          \/ \E u \in 1..Len(Digits) : Digits[u] = name[k]
          \/ name[k] \in {".", "_"}

\* An app operation's {success, message}, with the commands issued
AppResult(success, issued) == [success |-> success, issued |-> issued]

\* The validators of startApp pass; abilityName is <<>> when not given, and
\* an empty abilityName is not validated
appNamesValid(bundleName, abilityName) ==
    /\ validName(bundleName)
    /\ (abilityName # <<>> /\ abilityName[1] # <<>>) => validName(abilityName[1])

hdcStartApp(bundleName, abilityName, ok) ==
    IF ~appNamesValid(bundleName, abilityName) THEN AppResult(FALSE, <<>>)
    ELSE AppResult(ok, <<ShellCommand("aa start", ok)>>)

hdcStopApp(bundleName, ok) ==
    IF ~validName(bundleName) THEN AppResult(FALSE, <<>>)
    ELSE AppResult(ok, <<ShellCommand("aa force-stop", ok)>>)

hdcGetAppStatus(bundleName, ok) ==
    IF ~validName(bundleName) THEN AppResult(FALSE, <<>>)
    ELSE AppResult(ok, <<ShellCommand("aa dump", ok)>>)

\* restartApp: stop, wait, start; stopOk and startOk are the device's answers
hdcRestartApp(bundleName, abilityName, stopOk, startOk) ==
    IF ~appNamesValid(bundleName, abilityName) THEN AppResult(FALSE, <<>>)
    ELSE LET stopResult == hdcStopApp(bundleName, stopOk)
             startResult == hdcStartApp(bundleName, abilityName, startOk)
         IN IF ~stopResult.success THEN AppResult(FALSE, stopResult.issued)
            ELSE AppResult(startResult.success,
                           stopResult.issued \o startResult.issued)

\* HDC.screenshot(remotePath, localPath): snapshot on the device, then the
\* file transfer; paths are strings
hdcScreenshot(remotePath, localPath, snapOk, recvOk) ==
    IF remotePath = "" \/ localPath = "" THEN Thrown
    ELSE IF ~snapOk THEN Shelled(ShellCommand("snapshot_display", FALSE), FALSE)
    ELSE [threw |-> ~recvOk,
          issued |-> <<ShellCommand("snapshot_display", TRUE),
                       ShellCommand("file recv", recvOk)>>]

----------------------------------------------------------------------------
(* index.ts: the CallTool request handler *)

ToolNames ==
    {"list_windows", "get_ui_tree", "list_abilities", "screenshot", "tap",
     "swipe", "press_key", "text", "smart_tap", "start_app", "stop_app",
     "restart_app", "get_app_status"}

\* request.params.arguments: every argument is <<>> when absent
NoArgs ==
    [x |-> <<>>, y |-> <<>>, x1 |-> <<>>, y1 |-> <<>>, x2 |-> <<>>, y2 |-> <<>>,
     duration |-> <<>>, code |-> <<>>, text |-> <<>>, pid |-> <<>>,
     bundleName |-> <<>>, abilityName |-> <<>>, format |-> <<>>,
     nodeType |-> <<>>, outputPath |-> <<>>]

\* What a case of the switch does: it returns a result, flagged or not, or
\* throws; with the commands issued
Returns(isError, issued) == [threw |-> FALSE, isError |-> isError, issued |-> issued]
Throws(issued) == [threw |-> TRUE, isError |-> FALSE, issued |-> issued]
Forwarded(out) == IF out.threw THEN Throws(out.issued) ELSE Returns(FALSE, out.issued)
Reported(res) == Returns(~res.success, res.issued)

\* A slip that would forward the text to the device as the other input
\* tools do
toolTextForwards(args, ok) ==
    IF args.text = <<>> THEN Returns(TRUE, <<>>)
    ELSE Forwarded(Shelled(ShellCommand("uitest uiInput inputText", ok), ok))

\* case 'text': HDC has no method inputText, so the call hdc.inputText(text)
\* throws a TypeError before anything reaches the device
toolText(args, ok) ==
    IF args.text = <<>> THEN Returns(TRUE, <<>>)
    ELSE Throws(<<>>)

\* (args?.duration as number) || 300: 0 and NaN are falsy
toolDuration(duration) ==
    IF duration = <<>> \/ duration[1].nan \/ duration[1].v = 0
    THEN <<Num(DEFAULT_DURATION)>> ELSE duration

DefaultScreenshotPath == "/tmp/screenshot.jpeg"

\* The body of the try block; screen is the dump the device holds, ok1 and
\* ok2 the device's answers to the first and second command
toolBody(name, args, screen, ok1, ok2) ==
    CASE name \in {"list_windows", "list_abilities"} ->
            Forwarded(Shelled(ShellCommand(name, ok1), ok1))
      [] name = "get_ui_tree" ->
            IF ~ok1 THEN Throws(<<HidumperCommand(FALSE)>>)
            ELSE IF args.format = <<"search">> /\ args.nodeType = <<>>
            THEN Returns(TRUE, <<HidumperCommand(TRUE)>>)
            ELSE Returns(FALSE, <<HidumperCommand(TRUE)>>)
      [] name = "screenshot" ->
            Forwarded(hdcScreenshot("/data/local/tmp/screenshot.jpeg",
                                    IF args.outputPath \in {<<>>, <<"">>}
                                    THEN DefaultScreenshotPath
                                    ELSE args.outputPath[1],
                                    ok1, ok2))
      [] name = "tap" ->
            IF args.x = <<>> \/ args.y = <<>> THEN Returns(TRUE, <<>>)
            ELSE Forwarded(hdcTap(args.x[1], args.y[1], ok1))
      [] name = "swipe" ->
            IF args.x1 = <<>> \/ args.y1 = <<>> \/ args.x2 = <<>> \/ args.y2 = <<>>
            THEN Returns(TRUE, <<>>)
            ELSE Forwarded(hdcSwipe(args.x1[1], args.y1[1], args.x2[1], args.y2[1],
                                    toolDuration(args.duration), ok1))
      [] name = "press_key" ->
            IF args.code = <<>> THEN Returns(TRUE, <<>>)
            ELSE Forwarded(hdcPressKey(args.code[1], ok1))
      [] name = "text" -> toolText(args, ok1)
      [] name = "smart_tap" ->
            IF args.text = <<>> THEN Returns(TRUE, <<>>)
            ELSE LET out == smartTapOutcome(screen, args.text[1], args.pid, ok1, ok2)
                 IN Returns(~out.value.success, out.issued)
      [] name = "start_app" ->
            IF args.bundleName = <<>> THEN Returns(TRUE, <<>>)
            ELSE Reported(hdcStartApp(args.bundleName[1], args.abilityName, ok1))
      [] name = "stop_app" ->
            IF args.bundleName = <<>> THEN Returns(TRUE, <<>>)
            ELSE Reported(hdcStopApp(args.bundleName[1], ok1))
      [] name = "restart_app" ->
            IF args.bundleName = <<>> THEN Returns(TRUE, <<>>)
            ELSE Reported(hdcRestartApp(args.bundleName[1], args.abilityName, ok1, ok2))
      [] name = "get_app_status" ->
            IF args.bundleName = <<>> THEN Returns(TRUE, <<>>)
            ELSE Reported(hdcGetAppStatus(args.bundleName[1], ok1))
      [] OTHER -> Throws(<<>>)

\* A slip that would leave the switch outside the try block
callToolNoCatch(name, args, screen, ok1, ok2) ==
    LET body == toolBody(name, args, screen, ok1, ok2)
    IN [raised |-> body.threw, isError |-> body.isError, issued |-> body.issued]

\* The handler: the try block and its catch
callTool(name, args, screen, ok1, ok2) ==
    LET body == toolBody(name, args, screen, ok1, ok2)
    IN [raised |-> FALSE,
        isError |-> IF body.threw THEN TRUE ELSE body.isError,
        issued |-> body.issued]

\* Arguments a client may send
ToolCoords == {<<>>, <<NaN>>, <<Num(-1)>>, <<Num(50)>>}
ToolDurations == {<<>>, <<Num(0)>>, <<Num(-1)>>, <<Num(500)>>}
ComApp == <<"c", "o", "m", ".", "a", "p", "p">>
MainAbility == <<"M", "a", "i", "n", "_", "1">>
BadName == <<"a", ";", "b">>
ToolBundles == {<<>>, <<<<>>>>, <<ComApp>>, <<BadName>>}
ToolAbilities == {<<>>, <<<<>>>>, <<MainAbility>>, <<BadName>>}

ToolCalls ==
    {[name |-> n, args |-> NoArgs] : n \in ToolNames \cup {"frobnicate"}}
    \cup {[name |-> "get_ui_tree", args |-> [NoArgs EXCEPT !.format = f, !.nodeType = t]] :
             f \in {<<>>, <<"search">>, <<"text">>}, t \in {<<>>, <<"Button">>}}
    \cup {[name |-> "screenshot", args |-> [NoArgs EXCEPT !.outputPath = o]] :
             o \in {<<"">>, <<"/tmp/a.jpeg">>}}
    \cup {[name |-> "tap", args |-> [NoArgs EXCEPT !.x = x, !.y = y]] :
             x \in ToolCoords, y \in ToolCoords}
    \cup {[name |-> "swipe",
           args |-> [NoArgs EXCEPT !.x1 = x1, !.y1 = y1, !.x2 = x2, !.y2 = y2,
                                   !.duration = d]] :
             x1 \in ToolCoords, y1 \in ToolCoords, x2 \in ToolCoords,
             y2 \in ToolCoords, d \in ToolDurations}
    \cup {[name |-> "press_key", args |-> [NoArgs EXCEPT !.code = c]] :
             c \in {<<"">>, <<"Back">>}}
    \cup {[name |-> "text", args |-> [NoArgs EXCEPT !.text = t]] :
             t \in {<<<<>>>>, <<OK>>}}
    \cup {[name |-> "smart_tap", args |-> [NoArgs EXCEPT !.text = t, !.pid = p]] :
             t \in {<<Login>>, <<OK>>}, p \in WaitPids}
    \cup {[name |-> n, args |-> [NoArgs EXCEPT !.bundleName = b, !.abilityName = a]] :
             n \in {"start_app", "stop_app", "restart_app", "get_app_status"},
             b \in ToolBundles, a \in ToolAbilities}

ToolScreens == ControllerDumps

InitTool ==
    /\ lines \in ToolScreens
    /\ i = 1
    /\ nodes = <<>>
    /\ forest = <<>>
    /\ stack = <<>>
    /\ pc = "idle"
    /\ result = NoResult
    /\ cmds = <<>>

\* One CallTool request, from its arrival to the handler's answer
CallTool ==
    /\ pc = "idle"
    /\ \E call \in ToolCalls, ok1 \in BOOLEAN, ok2 \in BOOLEAN :
          \E out \in {callTool(call.name, call.args, lines, ok1, ok2)} :
             /\ result' = [op |-> "callTool", name |-> call.name, args |-> call.args,
                           raised |-> out.raised, isError |-> out.isError]
             /\ cmds' = cmds \o out.issued
             /\ pc' = IF out.raised THEN "raised" ELSE "returned"
    /\ UNCHANGED <<lines, i, nodes, forest, stack>>

NextTool == CallTool

SpecTool == InitTool /\ [][NextTool]_vars

----------------------------------------------------------------------------
(* C17, C18 *)

ToolAnswered == pc \in {"returned", "raised"} /\ result.op = "callTool"

MissingArgument ==
    LET a == result.args
    IN \/ result.name = "tap" /\ (a.x = <<>> \/ a.y = <<>>)
       \/ result.name = "swipe"
          /\ (a.x1 = <<>> \/ a.y1 = <<>> \/ a.x2 = <<>> \/ a.y2 = <<>>)
       \/ result.name = "press_key" /\ a.code = <<>>
       \/ result.name \in {"text", "smart_tap"} /\ a.text = <<>>
       \/ result.name \in {"start_app", "stop_app", "restart_app", "get_app_status"}
          /\ a.bundleName = <<>>
       \/ result.name = "get_ui_tree" /\ a.format = <<"search">> /\ a.nodeType = <<>>

\* An argument is given but is not a value the device layer accepts
InvalidArgument ==
    LET a == result.args
        bad(c) == c # <<>> /\ BadCoordinate(c[1])
    IN \/ result.name = "tap" /\ (bad(a.x) \/ bad(a.y))
       \/ result.name = "swipe"
          /\ (bad(a.x1) \/ bad(a.y1) \/ bad(a.x2) \/ bad(a.y2)
              \/ (a.duration # <<>> /\ ~a.duration[1].nan /\ a.duration[1].v < 0))
       \/ result.name = "press_key" /\ a.code = <<"">>
       \/ result.name \in {"start_app", "stop_app", "restart_app", "get_app_status"}
          /\ a.bundleName \in {<<<<>>>>, <<BadName>>}
       \/ result.name \in {"start_app", "restart_app"} /\ a.abilityName = <<BadName>>

DeviceFailed == \E k \in 1..Len(cmds) : ~cmds[k].ok

\* C18: the tool-call handler never raises: for every tool name and
\* argument set (an unknown name, a missing required argument, a validation
\* failure, a failure of the device layer) it returns a result, and every
\* such failure result is flagged isError.
C18_HandlerNeverRaises ==
    /\ pc # "raised"
    /\ ToolAnswered =>
          /\ ~result.raised
          /\ (\/ result.name \notin ToolNames
              \/ MissingArgument
              \/ InvalidArgument
              \/ DeviceFailed) => result.isError

\* The device refused the second command of a restart, and the answer is
\* flagged
C18_Witness ==
    /\ ToolAnswered
    /\ result.name = "restart_app"
    /\ Len(cmds) = 2
    /\ cmds[1].ok /\ ~cmds[2].ok
    /\ result.isError
    /\ ~result.raised

----------------------------------------------------------------------------
(* Workflow.runSequence, as the specification describes it: workflow.ts is
   not among the sources *)

MaxSteps == 3

\* WorkflowStep: the kinds whose outcome on a still screen the
\* specification fixes
WorkflowStep(type, text, ms) == [type |-> type, text |-> text, ms |-> ms]

WorkflowSteps ==
    {WorkflowStep("assertExists", Login, 0),
     WorkflowStep("assertExists", OK, 0),
     WorkflowStep("tap", Login, 0),
     WorkflowStep("inputText", OK, 0),
     WorkflowStep("delay", <<>>, 500)}

WorkflowScreens ==
    {<<Prefix(1) \o <<Tag("pid", 10)>>,
       Prefix(2) \o <<Tag("Text", 5), Txt("name", OK)>>>>,
     <<Prefix(1) \o <<Tag("pid", 10)>>,
       Prefix(2) \o <<Tag("Text", 2), Txt("name", Login)>>>>}

\* One step on the screen the device holds, the device answering (ok) or
\* failing its command: whether the step succeeded, and the commands issued.
\* A verification step never throws; input-text is refused without a command.
stepOutcome(step, screen, ok) ==
    CASE step.type = "assertExists" ->
            [success |-> ok /\ Len(findElementsByText(parse(screen), step.text, <<>>)) > 0,
             issued |-> <<HidumperCommand(ok)>>]
      [] step.type = "tap" ->
            LET out == smartTapOutcome(screen, step.text, <<>>, ok, ok)
            IN [success |-> out.value.success, issued |-> out.issued]
      [] step.type = "inputText" -> [success |-> FALSE, issued |-> <<>>]
      [] OTHER -> [success |-> TRUE, issued |-> <<>>]

StepResult(step, success, durationMs) ==
    [step |-> step, success |-> success, durationMs |-> durationMs]

\* A slip that would stop the run at the first failed step
sequenceDoneOnFailure(steps, results) ==
    \/ Len(results) = Len(steps)
    \/ Len(results) > 0 /\ ~results[Len(results)].success

\* Every step of the list has run
sequenceDone(steps, results) == Len(results) = Len(steps)

\* A slip that would report the outcome of the last step
workflowSuccessOfLast(results) ==
    Len(results) > 0 /\ results[Len(results)].success

\* WorkflowResult.success: zero failed steps
workflowSuccess(results) == \A k \in 1..Len(results) : results[k].success

InitWorkflow ==
    /\ lines \in WorkflowScreens
    /\ i = 1
    /\ nodes = <<>>
    /\ forest = <<>>
    /\ stack = <<>>
    /\ pc = "idle"
    /\ result = NoResult
    /\ cmds = <<>>

\* runSequence(steps) is called
RunSequence ==
    /\ pc = "idle"
    /\ \E n \in 0..MaxSteps : \E steps \in [1..n -> WorkflowSteps] :
          result' = [op |-> "runSequence", steps |-> steps, results |-> <<>>,
                     returned |-> FALSE, success |-> FALSE]
    /\ pc' = "step"
    /\ UNCHANGED <<lines, i, nodes, forest, stack, cmds>>

\* The next step of the list runs and its StepResult is logged
RunStep ==
    /\ pc = "step"
    /\ ~sequenceDone(result.steps, result.results)
    /\ \E ok \in BOOLEAN :
          LET step == result.steps[Len(result.results) + 1]
          IN \E out \in {stepOutcome(step, lines, ok)} :
                /\ result' = [result EXCEPT
                                 !.results = Append(@, StepResult(step, out.success, step.ms))]
                /\ cmds' = cmds \o out.issued
    /\ UNCHANGED <<lines, i, nodes, forest, stack, pc>>

\* The WorkflowResult is returned
RunSequenceReturns ==
    /\ pc = "step"
    /\ sequenceDone(result.steps, result.results)
    /\ result' = [result EXCEPT !.returned = TRUE,
                                !.success = workflowSuccess(result.results)]
    /\ pc' = "returned"
    /\ UNCHANGED <<lines, i, nodes, forest, stack, cmds>>

NextWorkflow == RunSequence \/ RunStep \/ RunSequenceReturns

SpecWorkflow == InitWorkflow /\ [][NextWorkflow]_vars

----------------------------------------------------------------------------
(* C19, C20 *)

WorkflowReturned == pc = "returned" /\ result.op = "runSequence"

\* assert-exists for a text the screen does not show, then a delay
AssertThenDelay ==
    /\ result.steps = <<WorkflowStep("assertExists", Login, 0),
                        WorkflowStep("delay", <<>>, 500)>>
    /\ lines[2][Len(lines[2])].chars = OK

\* C19: runSequence runs every step of the list in list order whatever the
\* outcome of earlier steps and returns exactly one StepResult per step, in
\* step order; a failing assert-exists followed by a delay yields two
\* StepResults and overall success false.
C19_EveryStepRunsInOrder ==
    (pc \in {"step", "returned"} /\ result.op = "runSequence") =>
        /\ Len(result.results) <= Len(result.steps)
        /\ \A k \in 1..Len(result.results) : result.results[k].step = result.steps[k]
        /\ WorkflowReturned => Len(result.results) = Len(result.steps)
        /\ (WorkflowReturned /\ AssertThenDelay) =>
              /\ Len(result.results) = 2
              /\ ~result.results[1].success
              /\ result.results[2].success
              /\ ~result.success

\* The scenario has run to its end
C19_Witness ==
    /\ WorkflowReturned
    /\ AssertThenDelay
    /\ Len(result.results) = 2
    /\ ~result.success

\* C20: WorkflowResult.success is true if and only if every StepResult of
\* the run has success=true, for step lists of any length, the empty list
\* included.
C20_SuccessIffNoFailedStep ==
    WorkflowReturned =>
        (result.success <=> ~\E k \in 1..Len(result.results) : ~result.results[k].success)

\* A run whose only failed step is its first has returned success=false
C20_Witness ==
    /\ WorkflowReturned
    /\ Len(result.results) = 3
    /\ ~result.results[1].success
    /\ result.results[2].success /\ result.results[3].success
    /\ ~result.success

----------------------------------------------------------------------------
(* RenderServiceParser: exports of a parsed forest *)

RECURSIVE nodeToObjectReversed(_, _)
RECURSIVE nodeToObject(_, _)

\* A slip that would export the children of a node last to first
nodeToObjectReversed(ns, n) ==
    [id |-> ns[n].id,
     type |-> ns[n].type,
     name |-> ns[n].name,
     pid |-> ns[n].pid,
     frameNodeId |-> ns[n].frameNodeId,
     frameNodeTag |-> ns[n].frameNodeTag,
     properties |-> ns[n].properties,
     children |-> [k \in 1..Len(ns[n].children) |->
                      nodeToObjectReversed(ns, ns[n].children[Len(ns[n].children) + 1 - k])]]

\* nodeToObject(node): the plain object of a node, its children nested in it
\* (parentId is left out)
nodeToObject(ns, n) ==
    [id |-> ns[n].id,
     type |-> ns[n].type,
     name |-> ns[n].name,
     pid |-> ns[n].pid,
     frameNodeId |-> ns[n].frameNodeId,
     frameNodeTag |-> ns[n].frameNodeTag,
     properties |-> ns[n].properties,
     children |-> [k \in 1..Len(ns[n].children) |->
                      nodeToObject(ns, ns[n].children[k])]]

\* result[pid] = tree on a Record<number, object>: an object keeps its
\* integer keys in ascending order, one property per key
recordSet(rec, pid, tree) ==
    IF \E k \in 1..Len(rec) : rec[k].pid = pid
    THEN [k \in 1..Len(rec) |-> IF rec[k].pid = pid THEN [pid |-> pid, tree |-> tree]
                                                    ELSE rec[k]]
    ELSE LET before == Cardinality({k \in 1..Len(rec) : rec[k].pid < pid})
         IN SubSeq(rec, 1, before) \o <<[pid |-> pid, tree |-> tree]>>
                \o SubSeq(rec, before + 1, Len(rec))

\* trees.forEach((node, pid) => { result[pid] = this.nodeToObject(node) })
RECURSIVE toJSONFrom(_, _, _)
toJSONFrom(P, k, rec) ==
    IF k > Len(P.forest) THEN rec
    ELSE toJSONFrom(P, k + 1,
                    recordSet(rec, P.forest[k].pid, nodeToObject(P.nodes, P.forest[k].root)))

\* RenderServiceParser.toJSON once parse has returned P
toJSON(P) == toJSONFrom(P, 1, <<>>)

\* The elements of a set of indices, in ascending order
Ascending(S) ==
    [r \in 1..Cardinality(S) |-> CHOOSE k \in S : Cardinality({j \in S : j < k}) = r - 1]

\* getSummary once parse has returned P: for each process in map order, the
\* node count and the maximal depth of countNodes, and the counts of
\* countByType, most frequent first (types in the order first met, sorted
\* stably)
getSummary(P) ==
    [e \in 1..Len(P.forest) |->
        LET ws == walk(P.nodes, P.forest[e].root, <<>>)
            type(k) == P.nodes[ws[k].node].type
            firsts == Ascending({k \in 1..Len(ws) : \A j \in 1..(k - 1) : type(j) # type(k)})
        IN [pid |-> P.forest[e].pid,
            total |-> Len(ws),
            maxDepth |-> Max({Len(ws[k].path) - 1 : k \in 1..Len(ws)}),
            types |-> sortByScore(
                [r \in 1..Len(firsts) |->
                    [type |-> type(firsts[r]),
                     score |-> Cardinality({k \in 1..Len(ws) : type(k) = type(firsts[r])})]])]]

\* toCompactNode(node, depth, maxDepth): the children are exported only
\* while depth < maxDepth; children is <<>> when the property is absent
RECURSIVE toCompactNode(_, _, _, _)
toCompactNode(ns, n, depth, maxDepth) ==
    [type |-> ns[n].type,
     name |-> ns[n].name,
     frameNodeId |-> ns[n].frameNodeId,
     frameNodeTag |-> ns[n].frameNodeTag,
     children |-> IF Len(ns[n].children) > 0 /\ depth < maxDepth
                  THEN [k \in 1..Len(ns[n].children) |->
                           toCompactNode(ns, ns[n].children[k], depth + 1, maxDepth)]
                  ELSE <<>>]

\* A pid or a count a caller passes is used only when it is truthy
truthy(opt) == opt # <<>> /\ opt[1] # 0

\* toCompactJSON once parse has returned P: the trees of [pid], or of every
\* key in ascending order, that the map holds
toCompactJSON(P, pid, maxDepth) ==
    LET entries == Ascending({k \in 1..Len(P.forest) :
                                 truthy(pid) => P.forest[k].pid = pid[1]})
        byPid == sortByScore([r \in 1..Len(entries) |->
                                 [k |-> entries[r], score |-> 0 - P.forest[entries[r]].pid]])
    IN [r \in 1..Len(byPid) |->
           [pid |-> P.forest[byPid[r].k].pid,
            tree |-> toCompactNode(P.nodes, P.forest[byPid[r].k].root, 0, maxDepth)]]

\* The options of a search: strings are <<>> when absent (or empty), the
\* type is "" when absent
nodeMatches(node, options) ==
    /\ ~(options.frameNodeTag # <<>> /\ node.frameNodeTag # options.frameNodeTag)
    /\ ~(options.nodeName # <<>> /\ node.name # <<>>
           /\ ~includes(node.name, options.nodeName[1]))
    /\ ~(options.nodeType # "" /\ node.type # options.nodeType)
    /\ (options.frameNodeTag # <<>> \/ options.nodeName # <<>> \/ options.nodeType # "")

\* The matches of one tree in depth-first order
searchTree(P, e, options) ==
    LET hit(w) == nodeMatches(P.nodes[w.node], options)
        ws == SelectSeq(walk(P.nodes, P.forest[e].root, <<>>), hit)
    IN [k \in 1..Len(ws) |->
           [pid |-> P.forest[e].pid, path |-> ws[k].path, node |-> ws[k].node]]

RECURSIVE searchTrees(_, _, _)
searchTrees(P, e, options) ==
    IF e > Len(P.forest) THEN <<>>
    ELSE (IF truthy(options.pid) /\ P.forest[e].pid # options.pid[1]
          THEN <<>> ELSE searchTree(P, e, options))
         \o searchTrees(P, e + 1, options)

\* searchNodes once parse has returned P: the search stops adding once
\* maxResults results are held, so the list is the first maxResults matches
searchNodes(P, options) ==
    LET all == searchTrees(P, 1, options)
        maxResults == IF truthy(options.maxResults) THEN options.maxResults[1] ELSE 50
    IN SubSeq(all, 1, IF Len(all) < maxResults THEN Len(all) ELSE maxResults)

\* {}: an object without properties
EmptyObject == [children |-> <<>>]

UiTreeResult(isError, format, value) ==
    [isError |-> isError, format |-> format, value |-> value]

\* case 'get_ui_tree', the last branch: pid ? {[pid]: trees[pid] || {}} : trees
uiTreeFull(P, pid) ==
    LET trees == toJSON(P)
        held == {k \in 1..Len(trees) : trees[k].pid = pid[1]}
    IN IF ~truthy(pid) THEN trees
       ELSE IF held = {} THEN <<[pid |-> pid[1], tree |-> EmptyObject]>>
       ELSE <<trees[CHOOSE k \in held : TRUE]>>

\* case 'get_ui_tree' once hdc.getUiTree has returned the dump ls; the text
\* returned is held as the value it is printed from
uiTreeTool(args, ls) ==
    LET P == parse(ls)
        format == IF args.format \in {<<>>, <<"">>} THEN "summary" ELSE args.format[1]
        maxDepth == IF truthy(args.maxDepth) THEN args.maxDepth[1] ELSE 50
    IN IF format = "summary" THEN UiTreeResult(FALSE, format, getSummary(P))
       ELSE IF format = "compact"
       THEN UiTreeResult(FALSE, format, toCompactJSON(P, args.pid, maxDepth))
       ELSE IF format = "search"
       THEN (IF args.frameNodeTag = <<>> /\ args.nodeName = <<>> /\ args.nodeType = ""
             THEN UiTreeResult(TRUE, format, <<>>)
             ELSE UiTreeResult(FALSE, format, searchNodes(P, args)))
       ELSE IF format = "text" THEN UiTreeResult(FALSE, format, ls)
       ELSE UiTreeResult(FALSE, format, uiTreeFull(P, args.pid))

----------------------------------------------------------------------------
(* The dumps whose export is asked for *)

TabBar == <<"T", "a", "b", "B", "a", "r">>

ExportLines ==
    {Prefix(1) \o <<Tag("pid", 20)>>,
     Prefix(1) \o <<Tag("pid", 10)>>,
     Prefix(1) \o <<Tag("Canvas", 1)>>,
     Prefix(1) \o <<Tag("Text", 5), Txt("name", OK)>>,
     Prefix(2) \o <<Tag("Button", 3), Txt("frameNodeTag", TabBar), Txt("name", Login)>>}

ExportDumps == UNION {[1..k -> ExportLines] : k \in 0..MaxLines}

InitExport ==
    /\ lines \in ExportDumps
    /\ i = 1
    /\ nodes = <<>>
    /\ forest = <<>>
    /\ stack = <<>>
    /\ pc = "idle"
    /\ result = NoResult
    /\ cmds = <<>>

\* RenderServiceParser.toJSON(output); the forest parse built is kept beside
\* the export
ToJSON ==
    /\ pc = "idle"
    /\ \E P \in {parse(lines)} :
          /\ result' = [op |-> "toJSON", value |-> toJSON(P)]
          /\ nodes' = P.nodes
          /\ forest' = P.forest
          /\ stack' = P.stack
    /\ pc' = "returned"
    /\ UNCHANGED <<lines, i, cmds>>

NoUiTreeArgs ==
    [format |-> <<>>, pid |-> <<>>, maxDepth |-> <<>>, frameNodeTag |-> <<>>,
     nodeName |-> <<>>, nodeType |-> "", maxResults |-> <<>>]

\* Arguments a client may send with get_ui_tree
UiTreeArgs ==
    {[NoUiTreeArgs EXCEPT !.format = f] : f \in {<<>>, <<"text">>}}
    \cup {[NoUiTreeArgs EXCEPT !.format = f, !.pid = p, !.maxDepth = d] :
             f \in {<<"compact">>, <<"full">>}, p \in {<<>>, <<10>>, <<30>>},
             d \in {<<>>, <<0>>, <<1>>}}
    \cup {[NoUiTreeArgs EXCEPT !.format = <<"search">>, !.pid = p, !.frameNodeTag = t,
                               !.nodeName = n, !.nodeType = y, !.maxResults = m] :
             p \in {<<>>, <<10>>}, t \in {<<>>, <<TabBar>>}, n \in {<<>>, <<<<"o">>>>},
             y \in {"", "Button"}, m \in {<<>>, <<1>>}}

\* One get_ui_tree request, from its arrival to the handler's answer; the
\* device answers with the dump of its screen or fails the command, and the
\* catch block turns the failure into an error result
GetUiTree ==
    /\ pc = "idle"
    /\ \E args \in UiTreeArgs, ok \in BOOLEAN :
          \E P \in {parse(lines)} :
             /\ result' = [op |-> "get_ui_tree", args |-> args]
                          @@ (IF ok THEN uiTreeTool(args, lines)
                              ELSE UiTreeResult(TRUE, "", <<>>))
             /\ cmds' = Append(cmds, HidumperCommand(ok))
             /\ nodes' = IF ok THEN P.nodes ELSE nodes
             /\ forest' = IF ok THEN P.forest ELSE forest
             /\ stack' = IF ok THEN P.stack ELSE stack
    /\ pc' = "returned"
    /\ UNCHANGED <<lines, i>>

NextExport == ToJSON \/ GetUiTree

SpecExport == InitExport /\ [][NextExport]_vars

----------------------------------------------------------------------------
(* C21 *)

\* The exported object has the type, the name and the children, in order and
\* at every level, of the node n
RECURSIVE SameShape(_, _)
SameShape(obj, n) ==
    /\ obj.type = nodes[n].type
    /\ obj.name = nodes[n].name
    /\ Len(obj.children) = Len(nodes[n].children)
    /\ \A k \in 1..Len(obj.children) : SameShape(obj.children[k], nodes[n].children[k])

\* C21: for every dump, the full JSON export (toJSON) has, for each pid of
\* the forest, the same tree shape as the forest returned by parse: the same
\* type and name at every node and the same children in the same order at
\* every level, with one exported entry per forest entry.
C21_ExportKeepsShape ==
    (pc = "returned" /\ result.op = "toJSON") =>
        /\ Len(result.value) = Len(forest)
        /\ \A k \in 1..Len(forest) :
              \E j \in 1..Len(result.value) :
                 /\ result.value[j].pid = forest[k].pid
                 /\ SameShape(result.value[j].tree, forest[k].root)
                 /\ \A h \in 1..Len(result.value) :
                       result.value[h].pid = forest[k].pid => h = j

\* Two trees exported, the later pid of the dump being the smaller, one root
\* with two children of different names
C21_Witness ==
    /\ pc = "returned" /\ result.op = "toJSON"
    /\ Len(forest) = 2
    /\ forest[1].pid > forest[2].pid
    /\ \E k \in 1..2 :
          /\ Len(result.value[k].tree.children) = 2
          /\ result.value[k].tree.children[1].name
                 # result.value[k].tree.children[2].name

----------------------------------------------------------------------------
(* C22 *)

\* swipe has handed its command to the device
SwipeIssued == pc = "returned" /\ result.op = "swipe" /\ cmds # <<>>

\* The duration in force (300 ms when the caller gave none)
SwipeDuration == IF result.duration = <<>> THEN Num(300) ELSE result.duration[1]

\* min(40000, max(200, round(d * 100))) for an integer d
ClampedVelocity(d) ==
    LET lower == IF d * 100 > 200 THEN d * 100 ELSE 200
    IN IF lower < 40000 THEN lower ELSE 40000

\* C22: swipe translates a non-negative integer duration d (ms) into
\* velocity = min(40000, max(200, round(d * 100))): for every d the velocity
\* lies in [200, 40000], and it is non-decreasing in d (no shorter duration
\* gives a greater velocity).
C22_VelocityClampedMonotonic ==
    (SwipeIssued /\ ~SwipeDuration.nan) =>
        LET d == SwipeDuration.v
            velocity == cmds[1].velocity
        IN /\ ~velocity.nan
           /\ velocity.v = ClampedVelocity(d)
           /\ 200 <= velocity.v /\ velocity.v <= 40000
           /\ \A e \in 0..d : ~swipeVelocity(Num(e)).nan
                              /\ swipeVelocity(Num(e)).v <= velocity.v

\* A swipe of 1 ms was issued at the lowest velocity
C22_Witness ==
    /\ SwipeIssued
    /\ result.duration = <<Num(1)>>
    /\ cmds[1].velocity = Num(200)

----------------------------------------------------------------------------
(* C23 *)

\* The number of levels below the exported object
RECURSIVE ObjDepth(_)
ObjDepth(obj) ==
    IF obj.children = <<>> THEN 0
    ELSE 1 + Max({ObjDepth(obj.children[k]) : k \in 1..Len(obj.children)})

\* get_ui_tree answered in the given format
UiTreeAnswered(format) ==
    /\ pc = "returned" /\ result.op = "get_ui_tree"
    /\ ~result.isError /\ result.format = format

\* C23: in get_ui_tree the maxDepth argument limits the depth of the
\* returned tree in both the compact and the full format: no node more than
\* maxDepth levels below its process root appears in the output of either
\* format (stated for a maxDepth of at least 1).  The full format never
\* looks at maxDepth.
C23_MaxDepthLimitsBothFormats ==
    (/\ UiTreeAnswered("compact") \/ UiTreeAnswered("full")
     /\ result.args.maxDepth # <<>>
     /\ result.args.maxDepth[1] >= 1) =>
        \A k \in 1..Len(result.value) :
            ObjDepth(result.value[k].tree) <= result.args.maxDepth[1]

----------------------------------------------------------------------------
(* C24 *)

\* C24: in get_ui_tree search mode every returned node satisfies all the
\* search parameters supplied; in particular, when nodeName is given, every
\* returned node has a name and that name contains nodeName.  The code lets
\* a node without a name pass the nodeName test.
C24_SearchResultsSatisfyAll ==
    UiTreeAnswered("search") =>
        \A k \in 1..Len(result.value) :
            LET node == nodes[result.value[k].node]
                args == result.args
            IN /\ args.frameNodeTag # <<>> => node.frameNodeTag = args.frameNodeTag
               /\ args.nodeType # "" => node.type = args.nodeType
               /\ args.nodeName # <<>> =>
                     /\ node.name # <<>>
                     /\ includes(node.name, args.nodeName[1])

----------------------------------------------------------------------------
(* C25 *)

----------------------------------------------------------------------------
(* C26 *)

----------------------------------------------------------------------------
(* Two screenshot requests in flight: the handler of a request runs up to  *)
(* its next await, where the handler of the other request may run          *)

Calls == {1, 2}

\* A slip that would give every request a remote file of its own
remotePathPerCall(call) ==
    IF call = 1 THEN "/data/local/tmp/screenshot-1.jpeg"
    ELSE "/data/local/tmp/screenshot-2.jpeg"

\* The remote path case 'screenshot' passes to hdc.screenshot
remotePath(call) == "/data/local/tmp/screenshot.jpeg"

\* (args?.outputPath as string) || '/tmp/screenshot.jpeg'
localPath(outputPath) ==
    IF outputPath \in {<<>>, <<"">>} THEN DefaultScreenshotPath ELSE outputPath[1]

ScreenshotCommand(kind, call, ok) == [kind |-> kind, call |-> call, ok |-> ok]

\* An image is named by the position in cmds of the snapshot command that
\* captured it; a file holds <<>> (it does not exist) or <<image>>
InitScreenshot ==
    /\ lines = <<>>
    /\ i = 1
    /\ nodes = <<>>
    /\ forest = <<>>
    /\ stack = <<>>
    /\ pc = [c \in Calls |-> "idle"]
    /\ result = [op |-> "screenshot",
                 localPath |-> [c \in Calls |-> ""],
                 device |-> [p \in {remotePath(c) : c \in Calls} |-> <<>>],
                 host |-> [p \in {DefaultScreenshotPath, "/tmp/a.jpeg"} |-> <<>>],
                 received |-> [c \in Calls |-> <<>>],
                 isError |-> [c \in Calls |-> FALSE]]
    /\ cmds = <<>>

\* A screenshot request arrives: the handler runs up to the await of
\* this.shell in hdc.screenshot (both paths pass validateFilePath)
ScreenshotCall ==
    \E c \in Calls, outputPath \in {<<>>, <<"">>, <<"/tmp/a.jpeg">>} :
        /\ pc[c] = "idle"
        /\ result' = [result EXCEPT !.localPath[c] = localPath(outputPath)]
        /\ pc' = [pc EXCEPT ![c] = "snapshot"]
        /\ UNCHANGED <<lines, i, nodes, forest, stack, cmds>>

\* The device runs snapshot_display -f remotePath, or fails it (the handler's
\* catch answers isError)
SnapshotDisplay ==
    \E c \in Calls, ok \in BOOLEAN :
        /\ pc[c] = "snapshot"
        /\ cmds' = Append(cmds, ScreenshotCommand("snapshot_display", c, ok))
        /\ result' = IF ok
                     THEN [result EXCEPT !.device[remotePath(c)] = <<Len(cmds) + 1>>]
                     ELSE [result EXCEPT !.isError[c] = TRUE]
        /\ pc' = [pc EXCEPT ![c] = IF ok THEN "recv" ELSE "returned"]
        /\ UNCHANGED <<lines, i, nodes, forest, stack>>

\* hdc file recv remotePath localPath runs, or fails; the handler answers
FileRecv ==
    \E c \in Calls, ok \in BOOLEAN :
        /\ pc[c] = "recv"
        /\ cmds' = Append(cmds, ScreenshotCommand("file recv", c, ok))
        /\ result' = IF ok
                     THEN [result EXCEPT
                              !.host[result.localPath[c]] = result.device[remotePath(c)],
                              !.received[c] = result.device[remotePath(c)]]
                     ELSE [result EXCEPT !.isError[c] = TRUE]
        /\ pc' = [pc EXCEPT ![c] = "returned"]
        /\ UNCHANGED <<lines, i, nodes, forest, stack>>

NextScreenshot == ScreenshotCall \/ SnapshotDisplay \/ FileRecv

SpecScreenshot == InitScreenshot /\ [][NextScreenshot]_vars

----------------------------------------------------------------------------
(* C27 *)

\* The position in cmds of the file transfer of call c that succeeded
TransferOf(c) ==
    CHOOSE k \in 1..Len(cmds) :
        cmds[k].kind = "file recv" /\ cmds[k].call = c /\ cmds[k].ok

\* The snapshot commands, of either call, that succeeded before position k
SnapshotsBefore(k) ==
    {j \in 1..(k - 1) : cmds[j].kind = "snapshot_display" /\ cmds[j].ok}

\* C27: tool calls are not concurrency-safe: when two screenshot calls
\* overlap, both capture to the same fixed remote path, so a call's file
\* transfer retrieves the image of the latest snapshot command of either
\* call, and there is an interleaving in which it retrieves the image
\* captured by the other call's snapshot command rather than its own.
C27_TransferTakesLatestSnapshot ==
    \A c \in Calls :
        result.received[c] # <<>> =>
            result.received[c] = <<Max(SnapshotsBefore(TransferOf(c)))>>

\* The first call's transfer has retrieved the image the second call captured
C27_Witness ==
    /\ result.received[1] # <<>>
    /\ cmds[result.received[1][1]].call = 2
    /\ \E k \in 1..Len(cmds) :
          cmds[k].kind = "snapshot_display" /\ cmds[k].call = 1 /\ cmds[k].ok

----------------------------------------------------------------------------
(* C28 *)

\* The timeout of the wait under way: 10000 ms when the caller gave none
WaitTimeout == IF result.timeout = <<>> THEN Num(10000) ELSE result.timeout[1]

\* ceil(t / 500) for an integer t, 0 when t <= 0
CeilPolls(t) == IF t <= 0 THEN 0 ELSE (t + 499) \div 500

WaitEnded == pc \in {"returned", "raised"}

\* At most ceil(timeout / 500) ingestion attempts, none when timeout <= 0
AttemptsBounded ==
    (result.op = "waitForElement" /\ ~WaitTimeout.nan) =>
        /\ Attempts <= CeilPolls(WaitTimeout.v)
        /\ (WaitEnded /\ WaitTimeout.v <= 0) =>
              /\ pc = "returned"
              /\ result.returned = "null"
              /\ cmds = <<>>

\* C28: waitForElement always terminates, provided each device call
\* returns: because every iteration that does not return sleeps 500 ms
\* before the deadline is re-checked, it makes at most ceil(timeout / 500)
\* ingestion attempts before returning a node, returning null or raising,
\* and with timeout <= 0 it returns null without issuing any device command.
C28_WaitTerminates == []AttemptsBounded /\ <>WaitEnded

\* A wait of 1200 ms has returned null after its third attempt
C28_Witness ==
    /\ pc = "returned"
    /\ result.op = "waitForElement"
    /\ result.timeout = <<Num(1200)>>
    /\ result.returned = "null"
    /\ Attempts = 3

----------------------------------------------------------------------------
(* C29 *)

RootLines == {k \in 1..Len(lines) : IsRootLine(k)}

PidOfLine(k) == lines[k][pidMatch(lines[k])].n

\* The root node the marker on line k created
RootOfLine(k) == CHOOSE n \in 1..Len(nodes) : nodes[n].src = k

\* C29: when two root-marker lines of one dump carry the same pid, the
\* forest holds a single entry for that pid and its tree is the one begun by
\* the last such marker: all nodes attached under the earlier marker are
\* absent from the result, and the number of forest entries always equals
\* the number of distinct pids among the root markers.
C29_LastRootMarkerWins ==
    pc = "parsed" =>
        /\ Len(forest) = Cardinality({PidOfLine(k) : k \in RootLines})
        /\ \A k \in RootLines :
              LET later == {j \in RootLines : j > k /\ PidOfLine(j) = PidOfLine(k)}
                  held == {e \in 1..Len(forest) : forest[e].pid = PidOfLine(k)}
              IN /\ Cardinality(held) = 1
                 /\ IF later = {}
                    THEN \A e \in held : forest[e].root = RootOfLine(k)
                    ELSE Subtree(RootOfLine(k)) \cap ForestNodes = {}

\* Two markers of one pid, each followed by a node line: the node under the
\* first is not in the forest
C29_Witness ==
    /\ pc = "parsed"
    /\ Len(forest) = 1
    /\ \E j, k \in RootLines :
          /\ j < k
          /\ PidOfLine(j) = PidOfLine(k)
          /\ Len(nodes[RootOfLine(j)].children) = 1
          /\ Len(nodes[RootOfLine(k)].children) = 1
          /\ nodes[RootOfLine(j)].children[1] \notin ForestNodes

----------------------------------------------------------------------------
(* HDC.restartApp, await by await; now is the time since the call in ms *)

DEFAULT_RESTART_DELAY == 500

TimedCommand(kind, ok, at) == [kind |-> kind, ok |-> ok, at |-> at]

\* A slip that would go on to the start whatever stopApp returned
restartAfterStopAlways(stopResult) == "settle"

\* if (!stopResult.success) return {success: false, ...}; else the delay
restartAfterStop(stopResult) == IF ~stopResult.success THEN "returned" ELSE "settle"

\* Milliseconds a device command may take, and the delay timer may take (it
\* fires no sooner than asked)
CommandDelays == {0, 100, 200}
RestartDelays == {DEFAULT_RESTART_DELAY, DEFAULT_RESTART_DELAY + 1, 600}

InitRestart ==
    /\ lines = <<>>
    /\ i = 1
    /\ nodes = <<>>
    /\ forest = <<>>
    /\ stack = <<>>
    /\ pc = "idle"
    /\ result = NoResult
    /\ cmds = <<>>

\* restartApp(bundleName, abilityName) is called: the validators run, and a
\* name they refuse ends the call in the catch block
RestartApp ==
    /\ pc = "idle"
    /\ \E bundleName \in {<<>>, ComApp, BadName}, abilityName \in ToolAbilities :
          /\ result' = [op |-> "restartApp", bundleName |-> bundleName,
                        abilityName |-> abilityName, now |-> 0, stoppedAt |-> <<>>,
                        success |-> FALSE]
          /\ pc' = IF appNamesValid(bundleName, abilityName) THEN "stop" ELSE "returned"
    /\ UNCHANGED <<lines, i, nodes, forest, stack, cmds>>

\* await this.stopApp(bundleName): the device runs aa force-stop or fails it
RestartStops ==
    /\ pc = "stop"
    /\ \E ok \in BOOLEAN, dt \in CommandDelays :
          \E stopResult \in {hdcStopApp(result.bundleName, ok)} :
             /\ cmds' = cmds \o [k \in 1..Len(stopResult.issued) |->
                                    TimedCommand(stopResult.issued[k].kind, ok, result.now)]
             /\ result' = [result EXCEPT !.now = @ + dt, !.stoppedAt = <<result.now + dt>>]
             /\ pc' = restartAfterStop(stopResult)
    /\ UNCHANGED <<lines, i, nodes, forest, stack>>

\* await new Promise(resolve => setTimeout(resolve, DEFAULT_RESTART_DELAY))
RestartSettles ==
    /\ pc = "settle"
    /\ \E dt \in RestartDelays : result' = [result EXCEPT !.now = @ + dt]
    /\ pc' = "start"
    /\ UNCHANGED <<lines, i, nodes, forest, stack, cmds>>

\* await this.startApp(bundleName, abilityName), and the value returned
RestartStarts ==
    /\ pc = "start"
    /\ \E ok \in BOOLEAN, dt \in CommandDelays :
          \E startResult \in {hdcStartApp(result.bundleName, result.abilityName, ok)} :
             /\ cmds' = cmds \o [k \in 1..Len(startResult.issued) |->
                                    TimedCommand(startResult.issued[k].kind, ok, result.now)]
             /\ result' = [result EXCEPT !.now = @ + dt,
                                         !.success = startResult.success]
    /\ pc' = "returned"
    /\ UNCHANGED <<lines, i, nodes, forest, stack>>

NextRestart == RestartApp \/ RestartStops \/ RestartSettles \/ RestartStarts

SpecRestart == InitRestart /\ [][NextRestart]_vars

----------------------------------------------------------------------------
(* C30 *)

Starts == {k \in 1..Len(cmds) : cmds[k].kind = "aa start"}

\* The names pass the validators: the bundle name, and the ability name
\* when one is given, are made of letters, digits, "." and "_"
RestartNamesValid ==
    /\ validName(result.bundleName)
    /\ result.abilityName \in {<<>>, <<<<>>>>} \/ validName(result.abilityName[1])

\* C30: restartApp issues the start command only after the stop command has
\* completed successfully and the settle delay (500 ms) has elapsed; when
\* name validation or the stop fails no start command is ever issued, and
\* the result is success=true only if both the stop and the start succeeded.
C30_StartOnlyAfterStopAndDelay ==
    result.op = "restartApp" =>
        /\ \A k \in Starts :
              /\ k = 2
              /\ cmds[1].kind = "aa force-stop" /\ cmds[1].ok
              /\ result.stoppedAt # <<>>
              /\ cmds[k].at >= result.stoppedAt[1] + 500
        /\ ~RestartNamesValid => cmds = <<>>
        /\ (cmds # <<>> /\ ~cmds[1].ok) => Starts = {}
        /\ result.success =>
              /\ pc = "returned"
              /\ Len(cmds) = 2
              /\ cmds[1].kind = "aa force-stop" /\ cmds[1].ok
              /\ cmds[2].kind = "aa start" /\ cmds[2].ok

\* The stop took 200 ms, the start was issued 500 ms after it and failed
C30_Witness ==
    /\ pc = "returned" /\ result.op = "restartApp"
    /\ Len(cmds) = 2
    /\ cmds[1].ok /\ ~cmds[2].ok
    /\ result.stoppedAt = <<200>>
    /\ cmds[2].at = 700
    /\ ~result.success

====
